---- MODULE Spec2Model ----
(***************************************************************************)
(* A model of tsbuild (RyanCavanaugh/tsbuild): the dependency graph and    *)
(* its layered build queue (createDependencyGraph), the up-to-date         *)
(* analyzer (checkUpToDateRelativeToInputs), the build callback            *)
(* (handleBuildStatus), the compiler emit callback (buildProject), the     *)
(* pseudo-builder (tryPseudoBuild) and the walk (processBuildQueue).       *)
(*                                                                         *)
(* Projects are identified by their canonical configuration file name.    *)
(* The file system is a map from files to an existence flag, an mtime and  *)
(* a content.  The compiler is an external collaborator: its diagnostics   *)
(* and the declaration text it emits are chosen nondeterministically.      *)
(***************************************************************************)
EXTENDS Integers, Sequences, FiniteSets, TLC

\* The universe of configuration files.
Proj == {"A", "B", "C"}

\* ------------------------------------------------------------------------
\* Bounds of the model
\* ------------------------------------------------------------------------
\* Longest list of roots given on the command line.
MaxRoots == 2
\* Number of walks of the build queue in one behaviour.
MaxWalks == 2
\* Number of external file-system changes in one behaviour.
MaxEdits == 1
\* Largest mtime drawn for a file in the analyzer's specification.
MaxMtime == 2

\* ------------------------------------------------------------------------
\* Helpers on sequences
\* ------------------------------------------------------------------------
Range(s) == {s[i] : i \in 1..Len(s)}

\* arr.indexOf(x) >= 0
Contains(s, x) == \E i \in 1..Len(s) : s[i] = x

\* arr.filter(keep)
RECURSIVE FilterSeq(_, _)
FilterSeq(s, keep) ==
    IF s = <<>> THEN <<>>
    ELSE LET rest == FilterSeq(Tail(s), keep)
         IN  IF Head(s) \in keep THEN <<Head(s)>> \o rest ELSE rest

\* Array.prototype.concat.apply([], arr)
RECURSIVE flatten(_)
flatten(arr) == IF arr = <<>> THEN <<>> ELSE Head(arr) \o flatten(Tail(arr))

\* Sequences without repetition over a set, of length at most n.
RECURSIVE SeqsUpTo(_, _)
SeqsUpTo(S, n) ==
    IF n = 0 THEN {<<>>}
    ELSE LET shorter == SeqsUpTo(S, n - 1)
         IN  shorter \cup {Append(s, x) : s \in shorter, x \in S}

NoDupSeqs(S) == {s \in SeqsUpTo(S, Cardinality(S)) :
                    \A i, j \in 1..Len(s) : i # j => s[i] # s[j]}

Max2(a, b) == IF a >= b THEN a ELSE b

\* ------------------------------------------------------------------------
\* State
\* ------------------------------------------------------------------------
VARIABLES
    \* configuration, fixed for a behaviour (the parsed tsconfig files)
    refs,        \* refs[p]: the references of p, in declaration order
    parseable,   \* parseable[p]: parseConfigFile(p) is not undefined
    cfg,         \* cfg[p]: [nIn, declaration, outFile, prepend]
    roots,       \* whatToDo.roots
    \* the dependency graph (main: graph)
    graph,       \* [buildQueue, dependencyMap, error]
    \* the file system
    fs,          \* fs[f]: [exists, mtime, content]
    now,         \* the clock new Date() reads
    \* the process and the walk in progress (processBuildQueue's locals)
    pc,          \* "init" | "graphed" | "probed" | "idle" | "walk"
    flags,       \* whatToDo: [dry, force]
    buildQueue,  \* the clone of graph.buildQueue, popped from its end
    nextSet,     \* the projects of the popped layer still to process
    unchangedOutputs,  \* context.unchangedOutputs: file -> prior mtime
    \* history of the behaviour, read by the properties only
    walkLog,     \* the steps of the current (or last) walk
    walkResult,  \* "none" | "running" | "done" | "halted" | "threw"
    prev,        \* the walk before the current one: [result, dry, log, quiet]
    changed,     \* an external change happened since the last walk ended
    walks, edits,
    \* the analyzer's standalone specification
    probe,       \* the status computed for the drawn file-system state
    \* the graph builder's traversal, step by step
    trav,        \* [pc, stack, queue, pos, map, rest, error]
    \* the reference map on its own
    mapper,      \* [childToParents, parentToChildren, allKeys]
    calls,       \* the addReference calls made so far, in order
    \* the pseudo-builder on its own
    attempts,    \* the tryPseudoBuild calls made so far, with their effect
    \* watch mode
    watch        \* [phase, layout, active, installs, starts, arrived, served]

vars == <<refs, parseable, cfg, roots, graph, fs, now, pc, flags, buildQueue,
          nextSet, unchangedOutputs, walkLog, walkResult, prev, changed,
          walks, edits, probe, trav, mapper, calls, attempts, watch>>

\* The state of the component specifications.
components == <<trav, mapper, calls, attempts, watch>>

\* ------------------------------------------------------------------------
\* dependency-map: createDependencyMapper
\* ------------------------------------------------------------------------
\* The spellings of configuration file names the map is called with: the
\* names of the projects and other spellings of the same files.
Spelling == Proj \cup {"./A", "B/../A", "C/."}

\* The segments of a spelling, between its separators.
Segments(s) ==
    CASE s = "./A"    -> <<".", "A">>
      [] s = "B/../A" -> <<"B", "..", "A">>
      [] s = "C/."    -> <<"C", ".">>
      [] OTHER        -> <<s>>

\* path.normalize on the segments: "." is dropped, ".." removes the segment
\* before it, or stays when there is none to remove.
RECURSIVE normalizeSegments(_, _)
normalizeSegments(done, todo) ==
    IF todo = <<>> THEN done
    ELSE LET seg == Head(todo) IN
         IF seg = "." THEN normalizeSegments(done, Tail(todo))
         ELSE IF seg = ".." /\ done # <<>> /\ done[Len(done)] # ".."
         THEN normalizeSegments(SubSeq(done, 1, Len(done) - 1), Tail(todo))
         ELSE normalizeSegments(Append(done, seg), Tail(todo))

\* The spelling path.normalize returns for each spelling, computed once.
normalized ==
    [fileName \in Spelling |->
        CHOOSE s \in Spelling :
            Segments(s) = normalizeSegments(<<>>, Segments(fileName))]

\* path.normalize(fileName)
normalize(fileName) == normalized[fileName]

EmptyMapper == [childToParents |-> [p \in Spelling |-> <<>>],
                parentToChildren |-> [p \in Spelling |-> <<>>],
                allKeys |-> <<>>]

\* addEntry(mapToAddTo, key, element), after its two calls of normalize:
\* the new list of key, and the new allKeys.
\* Variant: the element is pushed without the indexOf test.
addEntryListAppending(arr, element) == Append(arr, element)

addEntryList(arr, element) ==
    IF Contains(arr, element) THEN arr ELSE Append(arr, element)

addEntryKeys(allKeys, key, element) ==
    LET k1 == IF Contains(allKeys, key) THEN allKeys ELSE Append(allKeys, key)
    IN  IF Contains(k1, element) THEN k1 ELSE Append(k1, element)

\* Variant: key and element are stored as they are spelled.
spelledAsGiven(fileName) == fileName

\* key = normalize(key); element = normalize(element)
storedName(fileName) == normalize(fileName)

addReference(m, childConfigFileName, parentConfigFileName) ==
    LET child == storedName(childConfigFileName)
        parent == storedName(parentConfigFileName)
        c2p == [m.childToParents EXCEPT
                    ![child] = addEntryList(m.childToParents[child], parent)]
        k1  == addEntryKeys(m.allKeys, child, parent)
        p2c == [m.parentToChildren EXCEPT
                    ![parent] = addEntryList(m.parentToChildren[parent], child)]
        k2  == addEntryKeys(k1, parent, child)
    IN  [childToParents |-> c2p, parentToChildren |-> p2c, allKeys |-> k2]

getReferencesTo(m, parentConfigFileName) ==
    m.parentToChildren[normalize(parentConfigFileName)]

getReferencesOf(m, childConfigFileName) ==
    m.childToParents[normalize(childConfigFileName)]

getKeys(m) == m.allKeys

\* ------------------------------------------------------------------------
\* utils.ts: removeDuplicatesFromBuildQueue
\* ------------------------------------------------------------------------
\* occursAfter(s, start): s is in queue[i] for some i >= start.  Layers are
\* numbered from 1 here, from 0 in the source.
\* Variant: the search starts one layer too far.
occursAfterSkippingOne(queue, s, start) ==
    \E i \in (start + 1)..Len(queue) : Contains(queue[i], s)

occursAfter(queue, s, start) ==
    \E i \in start..Len(queue) : Contains(queue[i], s)

\* Variant: an entry is dropped when it occurs in an earlier layer, so the
\* leftmost occurrence is the one kept.
removeDuplicatesKeepingFirst(queue) ==
    [i \in 1..Len(queue) |->
        FilterSeq(queue[i], {fn \in Range(queue[i]) :
                                ~\E j \in 1..(i - 1) : Contains(queue[j], fn)})]

\* The loop assigns queue[i] for increasing i, and occursAfter reads only the
\* layers after i, which the loop has not yet changed.
removeDuplicatesFromBuildQueue(queue) ==
    [i \in 1..Len(queue) |->
        IF i < Len(queue)
        THEN FilterSeq(queue[i], {fn \in Range(queue[i]) : ~occursAfter(queue, fn, i + 1)})
        ELSE queue[i]]

\* ------------------------------------------------------------------------
\* index.ts: createDependencyGraph
\* ------------------------------------------------------------------------
\* enumerateReferences(fileName, root), on the state st = [queue, pos, map]
\* of the closure: buildQueue, buildQueuePosition and dependencyMap.
\* A project without references (getProjectReferenceFileNames undefined or
\* empty) leaves buildQueuePosition as it found it.
RECURSIVE enumerateReferences(_, _), enumerateRefs(_, _, _)
enumerateReferences(fileName, st) ==
    LET q1 == IF Len(st.queue) < st.pos + 1 THEN Append(st.queue, <<>>) ELSE st.queue
        myBuildLevel == q1[st.pos + 1]
        q2 == IF Contains(myBuildLevel, fileName) THEN q1
              ELSE [q1 EXCEPT ![st.pos + 1] = Append(myBuildLevel, fileName)]
        st2 == [st EXCEPT !.queue = q2]
    IN  IF refs[fileName] = <<>> THEN st2
        ELSE LET st3 == enumerateRefs(fileName, refs[fileName],
                                      [st2 EXCEPT !.pos = st2.pos + 1])
             IN  [st3 EXCEPT !.pos = st3.pos - 1]

\* for (const ref of refs) { addReference; parse; recurse }
enumerateRefs(fileName, rs, st) ==
    IF rs = <<>> THEN st
    ELSE LET ref == Head(rs)
             st1 == [st EXCEPT !.map = addReference(st.map, fileName, ref)]
             st2 == IF ~parseable[ref] THEN st1 ELSE enumerateReferences(ref, st1)
         IN  enumerateRefs(fileName, Tail(rs), st2)

\* for (const root of roots) { parse or throw; enumerateReferences }
RECURSIVE enumerateRoots(_, _)
enumerateRoots(rs, st) ==
    IF rs = <<>> THEN st
    ELSE IF ~parseable[Head(rs)] THEN [st EXCEPT !.error = Head(rs)]
    ELSE enumerateRoots(Tail(rs), enumerateReferences(Head(rs), st))

NoError == "none"

createDependencyGraph(rs) ==
    LET st == enumerateRoots(rs, [queue |-> <<>>, pos |-> 0, map |-> EmptyMapper,
                                  error |-> NoError])
    IN  IF st.error # NoError
        THEN [buildQueue |-> <<>>, dependencyMap |-> EmptyMapper, error |-> st.error]
        ELSE [buildQueue |-> removeDuplicatesFromBuildQueue(st.queue),
              dependencyMap |-> st.map, error |-> NoError]

NoGraph == [buildQueue |-> <<>>, dependencyMap |-> EmptyMapper, error |-> "unset"]

\* ------------------------------------------------------------------------
\* The file system and the parsed configuration
\* ------------------------------------------------------------------------
\* The files of a project: its source file ("ts"), its JavaScript output
\* ("js": the file under outDir, or the outFile bundle), its declaration
\* output ("dts") and the bundle's side-car descriptor ("info").
Kinds == {"ts", "js", "dts", "info"}
File == Proj \X Kinds

Absent == [exists |-> FALSE, mtime |-> 0, content |-> <<>>]

existsSync(f) == fs[f].exists
mtimeMs(f) == fs[f].mtime

\* configFile.fileNames
fileNames(p) == IF cfg[p].nIn = 0 THEN <<>> ELSE << <<p, "ts">> >>

\* index.ts:434 -Infinity and index.ts:473 Infinity
NegInfinity == -1
Infinity == 1000000

\* Declaration texts the compiler can emit for a project.
DtsTexts == {<<0>>, <<1>>}

\* ------------------------------------------------------------------------
\* file-map.ts: FileMap
\* ------------------------------------------------------------------------
EmptyFileMap == [f \in {} |-> 0]

setValue(m, fileName, value) ==
    [f \in DOMAIN m \cup {fileName} |-> IF f = fileName THEN value ELSE m[f]]

hasValue(m, fileName) == fileName \in DOMAIN m

\* createBuildContext
\* Variant: the map of the walk before is kept for the next walk.
createBuildContextOnce == unchangedOutputs

createBuildContext == EmptyFileMap

\* ------------------------------------------------------------------------
\* index.ts: getAllOutputFilenames, getOutputDeclarationFilenames
\* ------------------------------------------------------------------------
\* With outFile: [outFile] and, under declaration, its .d.ts sibling.
\* Otherwise, for every input, its .d.ts and its .js, whatever the
\* declaration option says.
getAllOutputFilenames(p) ==
    IF cfg[p].outFile
    THEN IF cfg[p].declaration THEN << <<p, "js">>, <<p, "dts">> >>
         ELSE << <<p, "js">> >>
    ELSE IF cfg[p].nIn = 0 THEN <<>>
         ELSE << <<p, "dts">>, <<p, "js">> >>

isDeclarationFile(f) == f[2] = "dts"

getOutputDeclarationFilenames(p) ==
    FilterSeq(getAllOutputFilenames(p),
              {f \in Range(getAllOutputFilenames(p)) : isDeclarationFile(f)})

\* Variant: the .js output is listed before the .d.ts output.
allOutputsJsFirst(p) ==
    IF ~cfg[p].outFile /\ cfg[p].nIn = 0 THEN <<>>
    ELSE << <<p, "js">> >> \o (IF cfg[p].declaration THEN << <<p, "dts">> >> ELSE <<>>)

\* The analyzer's own list of expected outputs (allOutputs), for a project
\* whose inputs all exist.
allOutputsOf(p) ==
    IF cfg[p].outFile
    THEN (IF cfg[p].declaration THEN << <<p, "dts">> >> ELSE <<>>) \o << <<p, "js">> >>
    ELSE IF cfg[p].nIn = 0 THEN <<>>
         ELSE (IF cfg[p].declaration THEN << <<p, "dts">> >> ELSE <<>>) \o << <<p, "js">> >>

\* ------------------------------------------------------------------------
\* index.ts: checkUpToDateRelativeToInputs
\* ------------------------------------------------------------------------
NoFile == <<"-", "-">>

Status(result, file, timestamp, olderFile, olderTimestamp) ==
    [result |-> result, file |-> file, timestamp |-> timestamp,
     olderFile |-> olderFile, olderTimestamp |-> olderTimestamp]

\* The analyzer raised instead of returning a status.
Threw == Status("threw", NoFile, 0, NoFile, 0)

\* Variant: an absent input is skipped without setting missingFile.
ownInputsSkippingAbsent(p) ==
    IF cfg[p].nIn = 0 \/ ~existsSync(<<p, "ts">>)
    THEN [missingFile |-> FALSE, time |-> NegInfinity, name |-> NoFile]
    ELSE [missingFile |-> FALSE, time |-> mtimeMs(<<p, "ts">>), name |-> <<p, "ts">>]

\* First loop: the inputs.  [missingFile, newestInputFileTime, newestInputFileName]
ownInputs(p) ==
    IF cfg[p].nIn = 0
    THEN [missingFile |-> FALSE, time |-> NegInfinity, name |-> NoFile]
    ELSE IF ~existsSync(<<p, "ts">>)
    THEN [missingFile |-> TRUE, time |-> NegInfinity, name |-> NoFile]
    ELSE [missingFile |-> FALSE, time |-> mtimeMs(<<p, "ts">>), name |-> <<p, "ts">>]

\* Variant: an output as old as the newest input counts as out of date.
RECURSIVE checkOutputsNotOlder(_, _, _, _, _)
checkOutputsNotOlder(outs, newestTime, newestName, oldestTime, oldestName) ==
    IF outs = <<>>
    THEN Status("continue", NoFile, newestTime, oldestName, oldestTime)
    ELSE LET f == Head(outs) IN
         IF ~existsSync(f) THEN Status("missing", f, 0, NoFile, 0)
         ELSE LET older == mtimeMs(f) < oldestTime
                  ot == IF older THEN mtimeMs(f) ELSE oldestTime
                  on == IF older THEN f ELSE oldestName
              IN  IF newestTime >= ot
                  THEN Status("out-of-date", newestName, newestTime, on, ot)
                  ELSE checkOutputsNotOlder(Tail(outs), newestTime, newestName, ot, on)

\* Second loop: the expected outputs, with the loop's two early returns.
\* Returns a status, or the result "continue" with the oldest output.
RECURSIVE checkOutputs(_, _, _, _, _)
checkOutputs(outs, newestTime, newestName, oldestTime, oldestName) ==
    IF outs = <<>>
    THEN Status("continue", NoFile, newestTime, oldestName, oldestTime)
    ELSE LET f == Head(outs) IN
         IF ~existsSync(f) THEN Status("missing", f, 0, NoFile, 0)
         ELSE LET older == mtimeMs(f) < oldestTime
                  ot == IF older THEN mtimeMs(f) ELSE oldestTime
                  on == IF older THEN f ELSE oldestName
              IN  IF newestTime > ot
                  THEN Status("out-of-date", newestName, newestTime, on, ot)
                  ELSE checkOutputs(Tail(outs), newestTime, newestName, ot, on)

\* The reference inputs: the .d.ts outputs of every referenced project.  The
\* test (outFile || /\.d\.ts$/) is applied to a list that holds .d.ts files
\* only, so it keeps them all.
RECURSIVE referenceInputsOf(_)
referenceInputsOf(rs) ==
    IF rs = <<>> THEN <<>>
    ELSE getOutputDeclarationFilenames(Head(rs)) \o referenceInputsOf(Tail(rs))

\* Variant: a recorded file is skipped whatever its recorded time.
skipsPseudoAlways(ctx, dependentFile, oldestTime) ==
    hasValue(ctx, dependentFile)

\* Whether the loop over the reference inputs skips dependentFile.
skipsPseudo(ctx, dependentFile, oldestTime) ==
    hasValue(ctx, dependentFile) /\ oldestTime >= ctx[dependentFile]

\* Third loop: the reference inputs, against the pseudo-timestamps.
RECURSIVE checkReferences(_, _, _, _, _, _, _, _)
checkReferences(deps, ctx, newestTime, newestName, oldestTime, oldestName, usedPseudoTimestamp, newestPseudoInput) ==
    IF deps = <<>>
    THEN IF usedPseudoTimestamp
         THEN Status("pseudo-up-to-date", NoFile,
                     Max2(newestTime, newestPseudoInput), NoFile, 0)
         ELSE Status("up-to-date", NoFile, newestTime, NoFile, 0)
    ELSE LET dependentFile == Head(deps) IN
         IF ~existsSync(dependentFile) THEN Threw   \* fs.statSync raises ENOENT
         ELSE IF skipsPseudo(ctx, dependentFile, oldestTime)
         THEN checkReferences(Tail(deps), ctx, newestTime, newestName,
                              oldestTime, oldestName, TRUE,
                              Max2(newestPseudoInput, mtimeMs(dependentFile)))
         ELSE LET newer == mtimeMs(dependentFile) > newestTime
                  nt == IF newer THEN mtimeMs(dependentFile) ELSE newestTime
                  nn == IF newer THEN dependentFile ELSE newestName
              IN  IF nt > oldestTime
                  THEN Status("out-of-date", nn, nt, oldestName, oldestTime)
                  ELSE checkReferences(Tail(deps), ctx, nt, nn, oldestTime,
                                       oldestName, usedPseudoTimestamp,
                                       newestPseudoInput)

checkUpToDateRelativeToInputs(p, ctx) ==
    IF ~parseable[p] THEN Threw        \* throw new Error("No config file")
    ELSE LET own == ownInputs(p) IN
         IF own.missingFile THEN Status("unbuildable", NoFile, 0, NoFile, 0)
         ELSE LET outs == checkOutputs(allOutputsOf(p), own.time, own.name,
                                       Infinity, NoFile)
              IN  IF outs.result # "continue" THEN outs
                  \* parseConfigFile(ref)!.options raises for an unreadable ref
                  ELSE IF \E r \in Range(refs[p]) : ~parseable[r] THEN Threw
                  ELSE checkReferences(referenceInputsOf(refs[p]), ctx,
                                       outs.timestamp, own.name,
                                       outs.olderTimestamp, outs.olderFile,
                                       FALSE, -1)

\* ------------------------------------------------------------------------
\* index.ts: buildProject
\* ------------------------------------------------------------------------
writeFileSync(fsx, f, content, t) ==
    [fsx EXCEPT ![f] = [exists |-> TRUE, mtime |-> t, content |-> content]]

readFileOrEmpty(fsx, f) == IF fsx[f].exists THEN fsx[f].content ELSE <<>>

\* The text the compiler writes for the bundle of p: the bundles of the
\* prepended references, in declaration order, then p's own output.
RECURSIVE prependedText(_, _, _)
prependedText(fsx, p, rs) ==
    IF rs = <<>> THEN <<>>
    ELSE (IF Head(rs) \in cfg[p].prepend
          THEN readFileOrEmpty(fsx, <<Head(rs), "js">>) ELSE <<>>)
         \o prependedText(fsx, p, Tail(rs))

ownText(p) == <<p>>

\* program.emit: the files the compiler hands to the write callback, in order,
\* with their texts.
emittedFiles(fsx, p, dtsText) ==
    LET pre == prependedText(fsx, p, refs[p])
        js  == IF cfg[p].outFile THEN pre \o ownText(p) ELSE ownText(p)
    IN  << [file |-> <<p, "js">>, content |-> js] >>
        \o (IF cfg[p].declaration
            THEN << [file |-> <<p, "dts">>, content |-> dtsText] >> ELSE <<>>)
        \o (IF cfg[p].outFile /\ cfg[p].prepend # {}
            THEN << [file |-> <<p, "info">>, content |-> <<Len(pre), Len(js)>>] >>
            ELSE <<>>)

\* Variant: no declaration file is written once any condition of the guard
\* holds (|| for &&).
emitCallbackSkippingDeclarations(st, e, declErrors, t) ==
    IF isDeclarationFile(e.file) \/ declErrors THEN st
    ELSE [fs |-> writeFileSync(st.fs, e.file, e.content, t), ctx |-> st.ctx,
          unchangedFlag |-> st.unchangedFlag]

\* Variant: an existing declaration file is recorded as unchanged without
\* comparing its text.
emitCallbackRecordingAlways(st, e, declErrors, t) ==
    IF isDeclarationFile(e.file) /\ declErrors THEN st
    ELSE LET isUnchangedDeclFile ==
                 isDeclarationFile(e.file) /\ st.fs[e.file].exists
         IN  [fs |-> writeFileSync(st.fs, e.file, e.content, t),
              ctx |-> IF isUnchangedDeclFile
                      THEN setValue(st.ctx, e.file, st.fs[e.file].mtime)
                      ELSE st.ctx,
              unchangedFlag |-> st.unchangedFlag /\ ~isUnchangedDeclFile]

\* Variant: a declaration file is written whatever the declaration
\* diagnostics.
emitCallbackWritingInvalidDeclarations(st, e, declErrors, t) ==
    LET isUnchangedDeclFile ==
            /\ isDeclarationFile(e.file)
            /\ st.fs[e.file].exists
            /\ st.fs[e.file].content = e.content
    IN  [fs |-> writeFileSync(st.fs, e.file, e.content, t),
         ctx |-> IF isUnchangedDeclFile
                 THEN setValue(st.ctx, e.file, st.fs[e.file].mtime)
                 ELSE st.ctx,
         unchangedFlag |-> st.unchangedFlag /\ ~isUnchangedDeclFile]

\* Variant: the time recorded for an unchanged declaration file is read after
\* the write.
emitCallbackRecordingWriteTime(st, e, declErrors, t) ==
    IF isDeclarationFile(e.file) /\ declErrors THEN st
    ELSE LET isUnchangedDeclFile ==
                 /\ isDeclarationFile(e.file)
                 /\ st.fs[e.file].exists
                 /\ st.fs[e.file].content = e.content
         IN  [fs |-> writeFileSync(st.fs, e.file, e.content, t),
              ctx |-> IF isUnchangedDeclFile THEN setValue(st.ctx, e.file, t)
                      ELSE st.ctx,
              unchangedFlag |-> st.unchangedFlag /\ ~isUnchangedDeclFile]

\* The write callback given to program.emit, for one emitted file.
emitCallback(st, e, declErrors, t) ==
    IF isDeclarationFile(e.file) /\ declErrors THEN st   \* no invalid .d.ts
    ELSE LET isUnchangedDeclFile ==
                 /\ isDeclarationFile(e.file)
                 /\ st.fs[e.file].exists
                 /\ st.fs[e.file].content = e.content
             priorChangeTime == st.fs[e.file].mtime
         IN  [fs |-> writeFileSync(st.fs, e.file, e.content, t),
              ctx |-> IF isUnchangedDeclFile
                      THEN setValue(st.ctx, e.file, priorChangeTime)
                      ELSE st.ctx,
              unchangedFlag |-> st.unchangedFlag /\ ~isUnchangedDeclFile]

RECURSIVE emitAll(_, _, _, _)
emitAll(st, es, declErrors, t) ==
    IF es = <<>> THEN st
    ELSE emitAll(emitCallback(st, Head(es), declErrors, t), Tail(es), declErrors, t)

ErrorFlags == {"ConfigFileErrors", "SyntaxErrors", "TypeErrors", "DeclarationEmitErrors"}

\* The diagnostics the compiler reports for a compile: none, syntactic or
\* option diagnostics, declaration diagnostics, semantic diagnostics, or
\* declaration and semantic diagnostics together.
Diags == {"none", "syntax", "decl", "type", "decl+type"}

\* program.getDeclarationDiagnostics().length
declDiagnostics(diag) == diag \in {"decl", "decl+type"}

\* program.getSemanticDiagnostics().length
semanticDiagnostics(diag) == diag \in {"type", "decl+type"}

\* buildProject(proj, context) at time t, when the compiler reports diag and
\* emits dtsText: [fs, ctx, resultFlags, compiled].
buildProject(p, fsx, ctx, t, diag, dtsText) ==
    IF ~parseable[p]
    THEN [fs |-> fsx, ctx |-> ctx, compiled |-> FALSE,
          resultFlags |-> {"DeclarationOutputUnchanged", "ConfigFileErrors"}]
    ELSE IF cfg[p].nIn = 0
    THEN [fs |-> fsx, ctx |-> ctx, compiled |-> FALSE, resultFlags |-> {}]
    ELSE IF diag = "syntax"
    THEN [fs |-> fsx, ctx |-> ctx, compiled |-> TRUE,
          resultFlags |-> {"DeclarationOutputUnchanged", "SyntaxErrors"}]
    ELSE LET declErrors == cfg[p].declaration /\ declDiagnostics(diag)
             st == emitAll([fs |-> fsx, ctx |-> ctx, unchangedFlag |-> TRUE],
                           emittedFiles(fsx, p, dtsText), declErrors, t)
         IN  [fs |-> st.fs, ctx |-> st.ctx, compiled |-> TRUE,
              resultFlags |->
                  (IF st.unchangedFlag THEN {"DeclarationOutputUnchanged"} ELSE {})
                  \cup (IF declErrors THEN {"DeclarationEmitErrors"} ELSE {})
                  \cup (IF semanticDiagnostics(diag) THEN {"TypeErrors"} ELSE {})]

\* ------------------------------------------------------------------------
\* index.ts: tryPseudoBuild, updateTimestamp, tryReusePrependedBuild
\* ------------------------------------------------------------------------
\* Variant: the prior mtimes are recorded but no file is touched.
RECURSIVE touchAllRecordingOnly(_, _, _)
touchAllRecordingOnly(st, files, t) ==
    IF files = <<>> THEN st
    ELSE LET f == Head(files) IN
         IF ~st.fs[f].exists THEN [st EXCEPT !.result = "threw"]
         ELSE touchAllRecordingOnly(
                  [st EXCEPT !.ctx = setValue(st.ctx, f, st.fs[f].mtime)],
                  Tail(files), t)

\* updateTimestamp on a list of files, recording each prior mtime; fs.statSync
\* raises on the first absent file, after the files before it were touched.
RECURSIVE touchAll(_, _, _)
touchAll(st, files, t) ==
    IF files = <<>> THEN st
    ELSE LET f == Head(files) IN
         IF ~st.fs[f].exists THEN [st EXCEPT !.result = "threw"]
         ELSE touchAll([st EXCEPT !.fs = [st.fs EXCEPT ![f].mtime = t],
                                  !.ctx = setValue(st.ctx, f, st.fs[f].mtime)],
                       Tail(files), t)

\* output = readFileSync(referenceOutFile) + output, over every reference
RECURSIVE referencedBundles(_, _, _)
referencedBundles(fsx, rs, output) ==
    IF rs = <<>> THEN output
    ELSE referencedBundles(fsx, Tail(rs), fsx[<<Head(rs), "js">>].content \o output)

\* Variant: originalOffset is read after the own content was appended.
newBundleInfoOfOutput(upstream, output) == <<Len(output), Len(output)>>

\* newBundleInfo: [originalOffset, totalLength]
newBundleInfo(upstream, output) == <<Len(upstream), Len(output)>>

\* tryReusePrependedBuild: [fs, result], result "true" | "false" | "threw"
tryReusePrependedBuild(p, fsx, t) ==
    LET outFilePath == <<p, "js">>
        bundleInfoPath == <<p, "info">>
    IN  IF ~fsx[outFilePath].exists THEN [fs |-> fsx, result |-> "false"]
        ELSE IF ~fsx[bundleInfoPath].exists THEN [fs |-> fsx, result |-> "false"]
        ELSE LET bundleInfo == fsx[bundleInfoPath].content
                 outFileContent == fsx[outFilePath].content
             IN  IF Len(outFileContent) # bundleInfo[2]
                 THEN [fs |-> fsx, result |-> "false"]
                 \* getOutFileName(refPath, refConfigFile!) and readFileSync raise
                 ELSE IF \E r \in Range(refs[p]) :
                            ~parseable[r] \/ ~cfg[r].outFile \/ ~fsx[<<r, "js">>].exists
                 THEN [fs |-> fsx, result |-> "threw"]
                 ELSE LET originalContent ==
                              SubSeq(outFileContent, bundleInfo[1] + 1, Len(outFileContent))
                          upstream == referencedBundles(fsx, refs[p], <<>>)
                          output == upstream \o originalContent
                          fs1 == writeFileSync(fsx, outFilePath, output, t)
                          fs2 == writeFileSync(fs1, bundleInfoPath,
                                               newBundleInfo(upstream, output), t)
                      IN  [fs |-> fs2, result |-> "true"]

\* Variant: the declaration output is touched before the bundle is tried.
tryPseudoBuildTouchingFirst(p, fsx, ctx, t) ==
    IF ~parseable[p] THEN [fs |-> fsx, ctx |-> ctx, result |-> "false"]
    ELSE IF cfg[p].prepend # {}
    THEN LET dts == getOutputDeclarationFilenames(p)
             touched == touchAll([fs |-> fsx, ctx |-> ctx, result |-> "true"],
                                 IF dts = <<>> THEN <<>> ELSE <<Head(dts)>>, t)
             reuse == tryReusePrependedBuild(p, touched.fs, t)
         IN  IF touched.result # "true" THEN touched
             ELSE [fs |-> reuse.fs, ctx |-> touched.ctx, result |-> reuse.result]
    ELSE touchAll([fs |-> fsx, ctx |-> ctx, result |-> "true"],
                  getAllOutputFilenames(p), t)

\* tryPseudoBuild(proj, timestamp, context) at time t: [fs, ctx, result]
tryPseudoBuild(p, fsx, ctx, t) ==
    IF ~parseable[p] THEN [fs |-> fsx, ctx |-> ctx, result |-> "false"]
    ELSE IF cfg[p].prepend # {}
    THEN LET reuse == tryReusePrependedBuild(p, fsx, t) IN
         IF reuse.result # "true"
         THEN [fs |-> reuse.fs, ctx |-> ctx, result |-> reuse.result]
         ELSE LET dts == getOutputDeclarationFilenames(p)
              IN  touchAll([fs |-> reuse.fs, ctx |-> ctx, result |-> "true"],
                           IF dts = <<>> THEN <<>> ELSE <<Head(dts)>>, t)
    ELSE touchAll([fs |-> fsx, ctx |-> ctx, result |-> "true"],
                  getAllOutputFilenames(p), t)

\* ------------------------------------------------------------------------
\* index.ts: handleBuildStatus
\* ------------------------------------------------------------------------
\* The build callback for a project of status `status`, under the flags fl,
\* at time t, with the compiler's answer (diag, dtsText) should it be asked:
\* [fs, ctx, keepGoing ("true" | "false" | "threw"), pseudo ("no" | "done" |
\* "refused" | "threw"), built (buildProject was called), compiled (the
\* compiler was run), flagsSet (the result flags of buildProject)].
\* Variant: --dry is not consulted.
buildsNowIgnoringDry(should, fl) == should

\* Variant: a pseudo-build is attempted under --force too.
attemptsPseudoUnderForce(status, fl) == status.result = "pseudo-up-to-date"

\* The switch: shouldBuild stays true except for an up-to-date project.
shouldBuild(status, fl) == IF status.result = "up-to-date" THEN fl.force ELSE TRUE

\* if (shouldBuild && !whatToDo.dry)
buildsNow(should, fl) == should /\ ~fl.dry

\* if (pseudoBuildTime && !whatToDo.force)
attemptsPseudo(status, fl) == status.result = "pseudo-up-to-date" /\ ~fl.force

\* Variant: type errors are not among the flags that fail a build.
buildSucceededDespiteTypeErrors(resultFlags) ==
    resultFlags \cap (ErrorFlags \ {"TypeErrors"}) = {}

\* (result & BuildResultFlags.Errors) === BuildResultFlags.None
buildSucceeded(resultFlags) == resultFlags \cap ErrorFlags = {}

handleBuildStatus(p, status, fsx, ctx, t, fl, diag, dtsText) ==
    LET untouched == [fs |-> fsx, ctx |-> ctx, keepGoing |-> "true", pseudo |-> "no",
                      built |-> FALSE, compiled |-> FALSE, flagsSet |-> {}]
        fullBuild(f0, c0, triedPseudo) ==
            LET b == buildProject(p, f0, c0, t, diag, dtsText)
            IN  [fs |-> b.fs, ctx |-> b.ctx,
                 keepGoing |-> IF buildSucceeded(b.resultFlags) THEN "true" ELSE "false",
                 pseudo |-> triedPseudo, built |-> TRUE, compiled |-> b.compiled,
                 flagsSet |-> b.resultFlags]
    IN  IF status.result = "unbuildable" THEN [untouched EXCEPT !.keepGoing = "false"]
        ELSE IF ~buildsNow(shouldBuild(status, fl), fl) THEN untouched
        ELSE IF attemptsPseudo(status, fl)
        THEN LET pb == tryPseudoBuild(p, fsx, ctx, t) IN
             IF pb.result = "true"
             THEN [untouched EXCEPT !.fs = pb.fs, !.ctx = pb.ctx, !.pseudo = "done"]
             ELSE IF pb.result = "threw"
             THEN [untouched EXCEPT !.fs = pb.fs, !.ctx = pb.ctx,
                                    !.pseudo = "threw", !.keepGoing = "threw"]
             ELSE fullBuild(pb.fs, pb.ctx, "refused")
        ELSE fullBuild(fsx, ctx, "no")

\* ------------------------------------------------------------------------
\* Configurations and initial states
\* ------------------------------------------------------------------------
Plain    == [nIn |-> 1, declaration |-> TRUE,  outFile |-> FALSE, prepend |-> {}]
NoDecl   == [nIn |-> 1, declaration |-> FALSE, outFile |-> FALSE, prepend |-> {}]
Solution == [nIn |-> 0, declaration |-> TRUE,  outFile |-> FALSE, prepend |-> {}]
Bundle   == [nIn |-> 1, declaration |-> TRUE,  outFile |-> TRUE,  prepend |-> {}]
Prepend(rs) == [nIn |-> 1, declaration |-> TRUE, outFile |-> TRUE, prepend |-> Range(rs)]

Referenced(rf) == {r \in Proj : \E p \in Proj : r \in Range(rf[p])}

\* Reference graphs without a cycle: no project reaches itself.
RECURSIVE ReachIn(_, _, _)
ReachIn(rf, from, n) ==
    IF n = 0 THEN {}
    ELSE LET direct == Range(rf[from])
         IN  direct \cup UNION {ReachIn(rf, r, n - 1) : r \in direct}

Reach(rf, from) == ReachIn(rf, from, Cardinality(Proj))
Acyclic(rf) == \A p \in Proj : p \notin Reach(rf, p)

\* The reference graphs of the walk's specification, by the references of B
\* and of C; A is a leaf.
Graph(b, c) == [p \in Proj |-> IF p = "B" THEN b ELSE IF p = "C" THEN c ELSE <<>>]
Cfg(a, b, c) == [p \in Proj |-> IF p = "A" THEN a ELSE IF p = "B" THEN b ELSE c]

ChainG     == Graph(<<"A">>, <<"B">>)          \* C -> B -> A
FanInG     == Graph(<<>>, <<"A", "B">>)        \* C -> A, C -> B
FanOutG    == Graph(<<"A">>, <<"A">>)          \* B -> A, C -> A
DiamondG   == Graph(<<"A">>, <<"B", "A">>)     \* C -> B -> A, C -> A

\* The configurations of the walk's specification.  A referenced project
\* is composite (README: "set composite: true in any referenced tsconfig"),
\* so it emits declarations; outFile and outDir projects are not mixed
\* (index.ts:403).
WalkConfigs ==
    {[refs |-> g, cfg |-> Cfg(Plain, Plain, Plain)] :
        g \in {ChainG, FanInG, FanOutG, DiamondG}}
    \cup {[refs |-> ChainG, cfg |-> Cfg(Plain, Plain, NoDecl)],
          [refs |-> ChainG, cfg |-> Cfg(Plain, Solution, Plain)],
          [refs |-> FanInG, cfg |-> Cfg(Plain, Plain, Solution)],
          [refs |-> ChainG, cfg |-> Cfg(Bundle, Prepend(<<"A">>), Prepend(<<"B">>))],
          [refs |-> ChainG, cfg |-> Cfg(Bundle, Bundle, Prepend(<<"B">>))],
          [refs |-> FanInG, cfg |-> Cfg(Bundle, Bundle, Prepend(<<"A", "B">>))]}

WellFormed(rf, c) ==
    /\ Acyclic(rf)
    /\ \A p \in Proj : c[p].prepend \subseteq Range(rf[p])
    /\ \A p \in Referenced(rf) : c[p].declaration
    /\ (\A p \in Proj : c[p].outFile) \/ (\A p \in Proj : ~c[p].outFile)

CleanTree(c) ==
    [f \in File |-> IF f[2] = "ts" /\ c[f[1]].nIn = 1
                    THEN [exists |-> TRUE, mtime |-> 0, content |-> <<>>]
                    ELSE Absent]

NoPrev == [result |-> "none", dry |-> FALSE, log |-> <<>>, quiet |-> FALSE]
NoProbe == [proj |-> "-", status |-> Threw]
NoFlags == [dry |-> FALSE, force |-> FALSE]

NoTraversal == [pc |-> "off", rest |-> <<>>, stack |-> <<>>, queue |-> <<>>,
                pos |-> 0, map |-> EmptyMapper, error |-> NoError]

\* No watcher is installed: the process has not reached its watch loop.
NoLayout == [dir |-> "none", input |-> "outside", out |-> "outside"]

NoWatch == [phase |-> "off", layout |-> NoLayout, active |-> {}, installs |-> 0,
            starts |-> 0, arrived |-> NoFile, served |-> FALSE]

InitComponents ==
    /\ trav = NoTraversal
    /\ mapper = EmptyMapper
    /\ calls = <<>>
    /\ attempts = <<>>
    /\ watch = NoWatch

InitRest ==
    /\ graph = NoGraph
    /\ pc = "init"
    /\ flags = NoFlags
    /\ buildQueue = <<>>
    /\ nextSet = <<>>
    /\ walkLog = <<>>
    /\ walkResult = "none"
    /\ prev = NoPrev
    /\ changed = FALSE
    /\ walks = 0
    /\ edits = 0
    /\ probe = NoProbe

\* The tree after a cold build that succeeded: every project compiled
\* without diagnostics, in the order of the walk, one time unit each.
RECURSIVE BuildAll(_, _, _)
BuildAll(order, fsx, t) ==
    IF order = <<>> THEN fsx
    ELSE CHOOSE tree \in
             {BuildAll(Tail(order), built, t + 1) :
                 built \in {buildProject(Head(order), fsx, EmptyFileMap, t,
                                         "none", <<0>>).fs}} : TRUE

RECURSIVE Reverse(_)
Reverse(s) == IF s = <<>> THEN <<>> ELSE Append(Reverse(Tail(s)), Head(s))

\* The order in which a walk processes the projects of a queue.
WalkOrder(queue) == flatten(Reverse(queue))

BuiltTree(c) ==
    BuildAll(WalkOrder(createDependencyGraph(roots).buildQueue), CleanTree(c), 1)

\* A built tree that also holds, for every outDir project whose declaration
\* option is off, a declaration file left in outDir by an earlier build.
StaleDeclarations(tree, c) ==
    [f \in File |->
        IF f[2] = "dts" /\ c[f[1]].nIn = 1 /\ ~c[f[1]].outFile /\ ~c[f[1]].declaration
        THEN [exists |-> TRUE, mtime |-> 0, content |-> <<0>>]
        ELSE tree[f]]

Trees == {"clean", "built", "stale"}

Init ==
    /\ \E w \in WalkConfigs : refs = w.refs /\ cfg = w.cfg
    /\ WellFormed(refs, cfg)
    /\ parseable = [p \in Proj |-> TRUE]
    /\ roots = <<"C", "B", "A">>
    /\ \E tree \in Trees :
          IF tree = "clean" THEN fs = CleanTree(cfg) /\ now = 1
          ELSE /\ now = 1 + Cardinality(Proj)
               /\ \E bt \in {BuiltTree(cfg)} :
                      fs = IF tree = "built" THEN bt ELSE StaleDeclarations(bt, cfg)
    /\ unchangedOutputs = EmptyFileMap
    /\ InitRest
    /\ InitComponents

\* ------------------------------------------------------------------------
\* index.ts: main, rebuildProject, rebuildGraph, processBuildQueue
\* ------------------------------------------------------------------------
config == <<refs, parseable, cfg, roots>>

\* processBuildQueue's prologue: a fresh context and a clone of the queue.
BeginWalk(g) ==
    /\ pc' = "walk"
    /\ buildQueue' = g.buildQueue          \* clone2DArray
    /\ nextSet' = <<>>
    /\ unchangedOutputs' = createBuildContext
    /\ prev' = [result |-> walkResult, dry |-> flags.dry, log |-> walkLog,
                quiet |-> ~changed]
    /\ changed' = FALSE
    /\ walkLog' = <<>>
    /\ walkResult' = "running"
    /\ walks' = walks + 1

\* main(whatToDo): the process starts, builds the graph and walks it.  A
\* root that cannot be parsed makes createDependencyGraph throw.
Main ==
    /\ pc = "init"
    /\ walks < MaxWalks
    /\ \E dry, force \in BOOLEAN : flags' = [dry |-> dry, force |-> force]
    /\ graph' = createDependencyGraph(roots)
    /\ IF graph'.error # NoError
       THEN /\ pc' = "idle"
            /\ walkResult' = "threw"
            /\ walks' = walks + 1
            /\ UNCHANGED <<buildQueue, nextSet, unchangedOutputs, walkLog, prev, changed>>
       ELSE BeginWalk(graph')
    /\ UNCHANGED <<config, fs, now, edits, probe, components>>

\* The exit code of a process whose main ended with the walk result
\* `result`: main returns from processBuildQueue without setting an exit
\* code, so node ends with 0, or with 1 when an exception was not caught.
exitCode(result) == IF result = "threw" THEN 1 ELSE 0

\* A watcher's file event, in a process started with --watch that is still
\* running: rebuildProject walks the same graph again.
RebuildProject ==
    /\ pc = "idle" /\ walkResult \in {"done", "halted"}
    /\ walks < MaxWalks
    /\ BeginWalk(graph)
    /\ UNCHANGED <<config, graph, fs, now, flags, edits, probe, components>>

\* A watcher's configuration event: rebuildGraph, then a walk.
RebuildGraph ==
    /\ pc = "idle" /\ walkResult \in {"done", "halted"}
    /\ walks < MaxWalks
    /\ graph' = createDependencyGraph(roots)
    /\ BeginWalk(graph')
    /\ UNCHANGED <<config, fs, now, flags, edits, probe, components>>

\* Variant: the queue is consumed from its first layer (shift for pop).
ShiftLayer ==
    /\ pc = "walk" /\ nextSet = <<>> /\ buildQueue # <<>>
    /\ nextSet' = Head(buildQueue)
    /\ buildQueue' = Tail(buildQueue)
    /\ UNCHANGED <<config, graph, fs, now, pc, flags, unchangedOutputs, walkLog,
                   walkResult, prev, changed, walks, edits, probe, components>>

\* while (buildQueue.length > 0) { const nextSet = buildQueue.pop()
PopLayer ==
    /\ pc = "walk" /\ nextSet = <<>> /\ buildQueue # <<>>
    /\ nextSet' = buildQueue[Len(buildQueue)]
    /\ buildQueue' = SubSeq(buildQueue, 1, Len(buildQueue) - 1)
    /\ UNCHANGED <<config, graph, fs, now, pc, flags, unchangedOutputs, walkLog,
                   walkResult, prev, changed, walks, edits, probe, components>>

\* Variant: the walk goes on after a callback that returned false.
walkContinuesAfterFalse(keepGoing) == keepGoing # "threw"

\* if (!keepGoing) { return; }
walkContinues(keepGoing) == keepGoing = "true"

\* What the compile of p wrote to its declaration output.
DtsWrite(p, before, after, t) ==
    LET f == <<p, "dts">> IN
    IF ~(after[f].exists /\ after[f].mtime = t /\ after[f] # before[f]) THEN "none"
    ELSE IF ~before[f].exists THEN "created"
    ELSE IF before[f].content = after[f].content THEN "same"
    ELSE "changed"

\* Whether the callback runs the compiler for proj: the compiler's answers
\* are drawn only then.
runsCompiler(proj, utd) ==
    handleBuildStatus(proj, utd, fs, unchangedOutputs, now, flags, "none", <<0>>).compiled

DiagsOf(runs) == IF runs THEN Diags ELSE {"none"}

DtsTextsOf(runs) == IF runs THEN DtsTexts ELSE {<<0>>}

\* The projects the analyzer finds up-to-date in the current state.
currentProjects ==
    {q \in Proj :
        checkUpToDateRelativeToInputs(q, unchangedOutputs).result = "up-to-date"}

\* The body of the for loop, for one project: analysis, then the callback.
\* Each value is computed once and bound by a quantifier over a singleton.
ProcessProject ==
    /\ pc = "walk" /\ nextSet # <<>>
    /\ \E proj \in {Head(nextSet)} :
       \E utd \in {checkUpToDateRelativeToInputs(proj, unchangedOutputs)} :
           IF utd.result = "threw"
           THEN /\ walkLog' = Append(walkLog,
                        [proj |-> proj, status |-> "threw", pseudo |-> "no",
                         built |-> FALSE, compiled |-> FALSE,
                         keepGoing |-> "threw", flagsSet |-> {},
                         dts |-> "none", at |-> now, current |-> {},
                         utd |-> utd, pre |-> fs, ctx |-> unchangedOutputs])
                /\ pc' = "idle" /\ walkResult' = "threw"
                /\ nextSet' = <<>> /\ buildQueue' = <<>>
                /\ UNCHANGED <<fs, now, unchangedOutputs>>
           ELSE \E runs \in {runsCompiler(proj, utd)}, current \in {currentProjects} :
                \E diag \in DiagsOf(runs), dtsText \in DtsTextsOf(runs) :
                /\ declDiagnostics(diag) => cfg[proj].declaration
                \* texts are named relative to the one on disk: a compile
                \* that finds no declaration file writes the text <<0>>
                /\ ~fs[<<proj, "dts">>].exists => dtsText = <<0>>
                /\ \E r \in {handleBuildStatus(proj, utd, fs, unchangedOutputs, now,
                                               flags, diag, dtsText)} :
                       /\ fs' = r.fs
                       /\ unchangedOutputs' = r.ctx
                       /\ now' = IF r.pseudo # "no" \/ r.compiled THEN now + 1 ELSE now
                       /\ walkLog' = Append(walkLog,
                              [proj |-> proj, status |-> utd.result, pseudo |-> r.pseudo,
                               built |-> r.built, compiled |-> r.compiled,
                               keepGoing |-> r.keepGoing,
                               flagsSet |-> r.flagsSet \cap ErrorFlags,
                               dts |-> DtsWrite(proj, fs, r.fs, now), at |-> now,
                               current |-> current,
                               utd |-> utd, pre |-> fs, ctx |-> unchangedOutputs])
                       /\ IF walkContinues(r.keepGoing)
                          THEN /\ nextSet' = Tail(nextSet)
                               /\ UNCHANGED <<pc, walkResult, buildQueue>>
                          ELSE /\ pc' = "idle"
                               /\ walkResult' = IF r.keepGoing = "threw"
                                                THEN "threw" ELSE "halted"
                               /\ nextSet' = <<>> /\ buildQueue' = <<>>
    /\ UNCHANGED <<config, graph, flags, prev, changed, walks, edits, probe, components>>

\* The while loop ends: processBuildQueue returns.
FinishWalk ==
    /\ pc = "walk" /\ nextSet = <<>> /\ buildQueue = <<>>
    /\ pc' = "idle"
    /\ walkResult' = "done"
    /\ UNCHANGED <<config, graph, fs, now, flags, buildQueue, nextSet,
                   unchangedOutputs, walkLog, prev, changed, walks, edits, probe, components>>

\* ------------------------------------------------------------------------
\* The environment: the user edits a source file or removes a file while no
\* walk is running.
\* ------------------------------------------------------------------------
EditInput ==
    /\ pc \in {"init", "idle"} /\ edits < MaxEdits /\ walks < MaxWalks
    /\ \E p \in Proj :
        /\ cfg[p].nIn = 1
        /\ fs' = [fs EXCEPT ![<<p, "ts">>] =
                      [exists |-> TRUE, mtime |-> now, content |-> <<>>]]
    /\ now' = now + 1
    /\ edits' = edits + 1
    /\ changed' = TRUE
    /\ UNCHANGED <<config, graph, pc, flags, buildQueue, nextSet, unchangedOutputs,
                   walkLog, walkResult, prev, walks, probe, components>>

RemoveFile ==
    /\ pc \in {"init", "idle"} /\ edits < MaxEdits /\ walks < MaxWalks
    /\ \E f \in File :
        /\ fs[f].exists
        /\ fs' = [fs EXCEPT ![f] = Absent]
    /\ edits' = edits + 1
    /\ changed' = TRUE
    /\ UNCHANGED <<config, graph, now, pc, flags, buildQueue, nextSet,
                   unchangedOutputs, walkLog, walkResult, prev, walks, probe, components>>

Next ==
    \/ Main
    \/ RebuildProject
    \/ RebuildGraph
    \/ PopLayer
    \/ ProcessProject
    \/ FinishWalk
    \/ EditInput
    \/ RemoveFile

Spec == Init /\ [][Next]_vars

\* ------------------------------------------------------------------------
\* The graph builder on its own: every acyclic reference graph, every list
\* of roots, every set of unreadable configuration files.
\* ------------------------------------------------------------------------
RootLists == SeqsUpTo(Proj, MaxRoots) \ {<<>>}

InitGraph ==
    /\ refs \in {rf \in [Proj -> NoDupSeqs(Proj)] : Acyclic(rf)}
    /\ parseable \in [Proj -> BOOLEAN]
    /\ cfg = Cfg(Plain, Plain, Plain)
    /\ roots \in RootLists
    /\ fs = CleanTree(cfg)
    /\ now = 1
    /\ unchangedOutputs = EmptyFileMap
    /\ InitRest
    /\ InitComponents

\* let graph = createDependencyGraph(whatToDo.roots)
CreateGraph ==
    /\ pc = "init"
    /\ graph' = createDependencyGraph(roots)
    /\ pc' = "graphed"
    /\ UNCHANGED <<config, fs, now, flags, buildQueue, nextSet, unchangedOutputs,
                   walkLog, walkResult, prev, changed, walks, edits, probe, components>>

NextGraph == CreateGraph

SpecGraph == InitGraph /\ [][NextGraph]_vars

\* ------------------------------------------------------------------------
\* The graph builder's traversal, one call or one loop iteration at a time,
\* over every reference graph, cycles included.
\* ------------------------------------------------------------------------
\* Frames the call stack of the runtime can hold.
MaxDepth == 5
\* Longest list of references of a configuration file.
MaxRefs == 2

\* The error of the runtime for a call made on a full stack.
RangeError == "RangeError"

\* Variant: the traversal on a stack without limit (the recursion unrolled
\* onto a worklist); the frames beyond MaxDepth, which repeat, are folded
\* into the top one.
enterCallWithoutStackLimit(t, fileName) ==
    LET q1 == IF Len(t.queue) < t.pos + 1 THEN Append(t.queue, <<>>) ELSE t.queue
        myBuildLevel == q1[t.pos + 1]
        q2 == IF Contains(myBuildLevel, fileName) THEN q1
              ELSE [q1 EXCEPT ![t.pos + 1] = Append(myBuildLevel, fileName)]
        frame == [fileName |-> fileName, todo |-> refs[fileName]]
    IN  IF refs[fileName] = <<>> THEN [t EXCEPT !.queue = q2]
        ELSE IF Len(t.stack) >= MaxDepth
        THEN [t EXCEPT !.queue = q2, !.stack[Len(t.stack)] = frame]
        ELSE [t EXCEPT !.queue = q2, !.pos = t.pos + 1, !.stack = Append(t.stack, frame)]

\* The call enumerateReferences(fileName, ...) made in the state t of the
\* traversal: the file joins the layer at buildQueuePosition; with
\* references the position advances and the call's frame holds the references
\* still to visit; without, the call returns at once.  A call made when the
\* stack is full throws RangeError (Maximum call stack size exceeded), which
\* nothing catches: createDependencyGraph fails with it.
enterCall(t, fileName) ==
    IF Len(t.stack) >= MaxDepth THEN [t EXCEPT !.pc = "failed", !.error = RangeError]
    ELSE LET q1 == IF Len(t.queue) < t.pos + 1 THEN Append(t.queue, <<>>) ELSE t.queue
             myBuildLevel == q1[t.pos + 1]
             q2 == IF Contains(myBuildLevel, fileName) THEN q1
                   ELSE [q1 EXCEPT ![t.pos + 1] = Append(myBuildLevel, fileName)]
         IN  IF refs[fileName] = <<>> THEN [t EXCEPT !.queue = q2]
             ELSE [t EXCEPT !.queue = q2, !.pos = t.pos + 1,
                            !.stack = Append(t.stack, [fileName |-> fileName,
                                                       todo |-> refs[fileName]])]

InitTraverse ==
    /\ refs \in [Proj -> {r \in NoDupSeqs(Proj) : Len(r) <= MaxRefs}]
    \* every configuration file parses, or all but B's
    /\ parseable \in {[p \in Proj |-> TRUE], [p \in Proj |-> p # "B"]}
    /\ cfg = Cfg(Plain, Plain, Plain)
    \* every graph is drawn, so the first root can be fixed
    /\ roots \in {<<"A">>, <<"A", "B">>}
    /\ fs = CleanTree(cfg)
    /\ now = 1
    /\ unchangedOutputs = EmptyFileMap
    /\ InitRest
    /\ trav = [NoTraversal EXCEPT !.pc = "running", !.rest = roots]
    /\ mapper = EmptyMapper
    /\ calls = <<>>
    /\ attempts = <<>>
    /\ watch = NoWatch

walkState == <<graph, fs, now, pc, flags, buildQueue, nextSet, unchangedOutputs,
               walkLog, walkResult, prev, changed, walks, edits, probe>>

\* for (const root of roots): parse the root or throw, then the first call.
NextRoot ==
    /\ trav.pc = "running" /\ trav.stack = <<>> /\ trav.rest # <<>>
    /\ trav' = IF ~parseable[Head(trav.rest)]
               THEN [trav EXCEPT !.pc = "failed", !.error = Head(trav.rest)]
               ELSE enterCall([trav EXCEPT !.rest = Tail(trav.rest)], Head(trav.rest))
    /\ UNCHANGED <<config, walkState, mapper, calls, attempts, watch>>

\* for (const ref of refs): addReference, parse, and recurse unless the
\* reference does not parse.
VisitReference ==
    /\ trav.pc = "running" /\ trav.stack # <<>>
    /\ LET top == trav.stack[Len(trav.stack)] IN
       /\ top.todo # <<>>
       /\ LET ref == Head(top.todo)
              t1 == [trav EXCEPT !.map = addReference(trav.map, top.fileName, ref),
                                 !.stack[Len(trav.stack)].todo = Tail(top.todo)]
          IN  trav' = IF ~parseable[ref] THEN t1 ELSE enterCall(t1, ref)
    /\ UNCHANGED <<config, walkState, mapper, calls, attempts, watch>>

\* The loop over the references is over: buildQueuePosition--, return.
ReturnFromCall ==
    /\ trav.pc = "running" /\ trav.stack # <<>>
    /\ trav.stack[Len(trav.stack)].todo = <<>>
    /\ trav' = [trav EXCEPT !.pos = trav.pos - 1,
                            !.stack = SubSeq(trav.stack, 1, Len(trav.stack) - 1)]
    /\ UNCHANGED <<config, walkState, mapper, calls, attempts, watch>>

\* removeDuplicatesFromBuildQueue(buildQueue); return
ReturnGraph ==
    /\ trav.pc = "running" /\ trav.stack = <<>> /\ trav.rest = <<>>
    /\ trav' = [trav EXCEPT !.pc = "returned",
                            !.queue = removeDuplicatesFromBuildQueue(trav.queue)]
    /\ UNCHANGED <<config, walkState, mapper, calls, attempts, watch>>

NextTraverse ==
    \/ NextRoot
    \/ VisitReference
    \/ ReturnFromCall
    \/ ReturnGraph

\* The traversal is one thread of control: it takes its next step as long
\* as it has one.
SpecTraverse == InitTraverse /\ [][NextTraverse]_vars /\ WF_vars(NextTraverse)

\* ------------------------------------------------------------------------
\* The reference map on its own: every sequence of addReference calls, with
\* every spelling of the arguments.
\* ------------------------------------------------------------------------
\* Number of addReference calls in one behaviour.
MaxCalls == 3

InitMapper ==
    /\ refs = Graph(<<>>, <<>>)
    /\ parseable = [p \in Proj |-> TRUE]
    /\ cfg = Cfg(Plain, Plain, Plain)
    /\ roots = <<"C">>
    /\ fs = CleanTree(cfg)
    /\ now = 1
    /\ unchangedOutputs = EmptyFileMap
    /\ InitRest
    /\ trav = NoTraversal
    \* const dependencyMap = createDependencyMapper()
    /\ mapper = EmptyMapper
    /\ calls = <<>>
    /\ attempts = <<>>
    /\ watch = NoWatch

\* dependencyMap.addReference(child, parent)
AddReference ==
    /\ Len(calls) < MaxCalls
    /\ \E child, parent \in Spelling :
          /\ mapper' = addReference(mapper, child, parent)
          /\ calls' = Append(calls, [child |-> child, parent |-> parent])
    /\ UNCHANGED <<config, walkState, trav, attempts, watch>>

NextMapper == AddReference

SpecMapper == InitMapper /\ [][NextMapper]_vars

\* ------------------------------------------------------------------------
\* The pseudo-builder on its own: tryPseudoBuild applied to the projects of
\* a built tree, between compiles of the upstream projects and changes made
\* by hand to the bundles and their descriptors.
\* ------------------------------------------------------------------------
\* The number of tryPseudoBuild calls and of changes between them.
MaxAttempts == 3
MaxChanges == 2

\* The configurations tried: the outFile configurations of the walk, and one
\* with outDir.
PseudoConfigs ==
    {w \in WalkConfigs : \A p \in Proj : w.cfg[p].outFile}
    \cup {[refs |-> ChainG, cfg |-> Cfg(Plain, Plain, Plain)]}

\* The texts a compile emits for the own code of r: the text of the built
\* tree, or a longer one after the source was edited.
OwnTexts(r) == {ownText(r), <<r, r>>}

\* The files the compiler emits for r with own text `text` and declaration
\* text dtsText, as emittedFiles lists them: the bundle, the declaration
\* file, the descriptor.
emittedBundle(fsx, r, text, dtsText) ==
    LET pre == prependedText(fsx, r, refs[r])
        js  == pre \o text
    IN  << [file |-> <<r, "js">>, content |-> js] >>
        \o (IF cfg[r].declaration
            THEN << [file |-> <<r, "dts">>, content |-> dtsText] >> ELSE <<>>)
        \o (IF cfg[r].prepend # {}
            THEN << [file |-> <<r, "info">>, content |-> <<Len(pre), Len(js)>>] >>
            ELSE <<>>)

InitPseudo ==
    /\ \E w \in PseudoConfigs : refs = w.refs /\ cfg = w.cfg
    /\ parseable \in {[p \in Proj |-> TRUE], [p \in Proj |-> p # "C"]}
    /\ roots = <<"C", "B", "A">>
    /\ now = 1 + Cardinality(Proj)
    /\ fs = BuiltTree(cfg)
    /\ unchangedOutputs = EmptyFileMap
    /\ InitRest
    /\ InitComponents

\* An upstream project with outFile is compiled after an edit to its source,
\* without diagnostics: the emit callback is called for its bundle, its
\* declaration file and its descriptor, and records in the context the prior
\* mtime of a declaration file whose text did not change.
CompileBundle ==
    /\ edits < MaxChanges /\ Len(attempts) < MaxAttempts
    /\ \E r \in Proj : \E text \in OwnTexts(r), dtsText \in DtsTexts :
        /\ parseable[r] /\ cfg[r].outFile
        /\ ~fs[<<r, "dts">>].exists => dtsText = <<0>>
        /\ \E st \in {emitAll([fs |-> fs, ctx |-> unchangedOutputs,
                                unchangedFlag |-> TRUE],
                               emittedBundle(fs, r, text, dtsText), FALSE, now)} :
               /\ fs' = st.fs
               /\ unchangedOutputs' = st.ctx
    /\ now' = now + 1
    /\ edits' = edits + 1
    /\ UNCHANGED <<config, graph, pc, flags, buildQueue, nextSet,
                   walkLog, walkResult, prev, changed, walks, probe, components>>

\* A bundle or a descriptor is removed, or a bundle is edited by hand.
ChangeByHand ==
    /\ edits < MaxChanges /\ Len(attempts) < MaxAttempts
    /\ \E f \in {g \in File : g[2] \in {"js", "info"} /\ fs[g].exists} :
        \/ fs' = [fs EXCEPT ![f] = Absent]
        \/ /\ f[2] = "js"
           /\ fs' = writeFileSync(fs, f, fs[f].content \o <<"edit">>, now)
    /\ now' = now + 1
    /\ edits' = edits + 1
    /\ UNCHANGED <<config, graph, pc, flags, buildQueue, nextSet, unchangedOutputs,
                   walkLog, walkResult, prev, changed, walks, probe, components>>

\* tryPseudoBuild(proj, timestamp, context)
PseudoBuild ==
    /\ Len(attempts) < MaxAttempts
    /\ \E p \in Proj :
       \E r \in {tryPseudoBuild(p, fs, unchangedOutputs, now)} :
           /\ fs' = r.fs
           /\ unchangedOutputs' = r.ctx
           /\ attempts' = Append(attempts,
                  [proj |-> p, result |-> r.result, pre |-> fs, post |-> r.fs,
                   ctx |-> unchangedOutputs, ctxPost |-> r.ctx, at |-> now])
    /\ now' = now + 1
    /\ UNCHANGED <<config, graph, pc, flags, buildQueue, nextSet, walkLog, walkResult,
                   prev, changed, walks, edits, probe, trav, mapper, calls, watch>>

NextPseudo ==
    \/ CompileBundle
    \/ ChangeByHand
    \/ PseudoBuild

SpecPseudo == InitPseudo /\ [][NextPseudo]_vars

\* ------------------------------------------------------------------------
\* index.ts: watch mode (watchFilesForProject, rebuildProject, rebuildGraph)
\* ------------------------------------------------------------------------
\* File names are sequences of characters.  Project p lies in directory p;
\* its configuration file is p/t, its wildcard directory (if it declares
\* one) is p/s, and the layout says where its input file and its outputs are.
IsPrefix(d, file) == Len(d) <= Len(file) /\ SubSeq(file, 1, Len(d)) = d

configPath(p) == <<p, "/", "t">>

wildcardDirectory(p) == <<p, "/", "s">>

\* getCanonicalFileName(file), for the input and the outputs of a project
pathOf(l, f) ==
    LET p == f[1] IN
    IF f[2] = "ts"
    THEN CASE l.input = "child"   -> <<p, "/", "s", "/", "a">>
           [] l.input = "nested"  -> <<p, "/", "s", "/", "n", "/", "a">>
           [] l.input = "sibling" -> <<p, "/", "s", "2", "/", "a">>
           [] OTHER               -> <<p, "/", "l", "/", "a">>
    ELSE IF l.out = "inside" THEN <<p, "/", "s", "/", "o", "/", f[2]>>
         ELSE <<p, "/", "o", "/", f[2]>>

\* The layouts tried: dir is the wildcard directory's flag (none declared,
\* not recursive, recursive).
Layouts ==
    {l \in [dir : {"none", "flat", "deep"},
            input : {"child", "nested", "sibling", "outside"},
            out : {"inside", "outside"}] :
        /\ l.dir = "none" => (l.input = "outside" /\ l.out = "outside")
        /\ l.dir = "flat" => l.out = "outside"}

\* chokidar: a file watcher reports its file; a directory watcher reports
\* the files below its directory, down to `depth` levels (0: its children).
delivers(w, file) ==
    CASE w.kind = "file" -> file = w.path
      [] w.kind = "dir"  ->
            /\ IsPrefix(w.path \o <<"/">>, file)
            /\ \/ w.recursive
               \/ ~Contains(SubSeq(file, Len(w.path) + 2, Len(file)), "/")
      [] OTHER -> FALSE

\* The files a watcher reports, with the state it last saw them in
\* (ignoreInitial: the state at the time of chokidar.watch).
snapshot(w, l, fsx) ==
    [w EXCEPT !.seen = [f \in {g \in File : delivers(w, pathOf(l, g))} |-> fsx[f]]]

Watcher(id, p, kind, path, recursive, listed) ==
    [id |-> id, proj |-> p, kind |-> kind, path |-> path, recursive |-> recursive,
     listed |-> listed, seen |-> <<>>, dirty |-> FALSE]

\* const fileWatch = chokidar.watch(file, ...): not pushed onto `watchers`
fileWatchIsListed == FALSE

\* watchedDirs.some(d => file.indexOf(d) === 0)
alreadyWatched(dirWatchers, file) ==
    \E w \in dirWatchers : IsPrefix(w.path, file)

\* watchFilesForProject(configFile, callbacks): the watchers it creates, as
\* installation number id, on the tree fsx.
watchFilesForProject(p, l, id, fsx) ==
    LET projWatch == {Watcher(id, p, "config", configPath(p), FALSE, TRUE)}
        dirWatch == IF l.dir = "none" THEN {}
                    ELSE {Watcher(id, p, "dir", wildcardDirectory(p),
                                  l.dir = "deep", TRUE)}
        fileWatch == {Watcher(id, p, "file", pathOf(l, f), FALSE, fileWatchIsListed) :
                         f \in {g \in Range(fileNames(p)) :
                                   ~alreadyWatched(dirWatch, pathOf(l, g))}}
    IN  {snapshot(w, l, fsx) : w \in projWatch \cup dirWatch \cup fileWatch}

\* for (const proj of flatten(graph.buildQueue)) watchFilesForProject(proj, ...)
installAll(g, l, id, fsx) ==
    UNION {watchFilesForProject(p, l, id, fsx) : p \in Range(flatten(g.buildQueue))}

\* for (const w of watchers) w.close(); watchers.length = 0
closeListed(active) == {w \in active : ~w.listed}

\* A watcher has an event to report: its configuration file was saved, or a
\* file it reports is not as it last saw it.
changedFiles(w) == {f \in DOMAIN w.seen : fs[f] # w.seen[f]}

\* Times are kept up to their order, which is all the program reads of them:
\* when a handler starts, the mtimes on disk and those the watchers saw are
\* renumbered by rank and the clock reads the next number.
TimesOf(tree) == {tree[f].mtime : f \in {g \in DOMAIN tree : tree[g].exists}}

Rank(t, T) == Cardinality({x \in T : x < t})

Renumber(tree, T) ==
    [f \in DOMAIN tree |->
        IF tree[f].exists THEN [tree[f] EXCEPT !.mtime = Rank(tree[f].mtime, T)]
        ELSE tree[f]]

\* Variant: a callback of the watcher runs while a walk is on the stack.
callStackAny == TRUE

\* The callbacks of the watchers are called from the event loop, with no
\* frame of the program on the stack: processBuildQueue and all it calls are
\* synchronous.
callStackEmpty == pc = "idle"

\* A callback may run: the process is in its watch loop and alive.
mayRunCallback ==
    /\ watch.phase = "watching"
    /\ walkResult # "threw"
    /\ callStackEmpty

\* processBuildQueue called from a callback, the watchers being w2.
StartWalk(g, w2) ==
    /\ \E T \in {TimesOf(fs) \cup UNION {TimesOf(w.seen) : w \in w2.active}} :
        /\ fs' = Renumber(fs, T)
        /\ now' = Cardinality(T)
        /\ watch' = [w2 EXCEPT !.active = {[w EXCEPT !.seen = Renumber(w.seen, T)] :
                                              w \in w2.active},
                               !.starts = 1 - w2.starts]
    /\ pc' = "walk"
    /\ buildQueue' = g.buildQueue
    /\ nextSet' = <<>>
    /\ unchangedOutputs' = createBuildContext
    /\ walkLog' = <<>>
    /\ walkResult' = "running"

\* tsbuild --watch A: one project with one input file, in every layout; the
\* tree is clean or built.
InitWatch ==
    /\ refs = ChainG /\ cfg = Cfg(Plain, Plain, Plain)
    /\ parseable = [p \in Proj |-> TRUE]
    /\ roots = <<"A">>
    /\ \E tree \in {"clean", "built"} :
          IF tree = "clean" THEN fs = CleanTree(cfg) /\ now = 1
          ELSE fs = BuiltTree(cfg) /\ now = 1 + Cardinality(Proj)
    /\ unchangedOutputs = EmptyFileMap
    /\ InitRest
    /\ trav = NoTraversal
    /\ mapper = EmptyMapper
    /\ calls = <<>>
    /\ attempts = <<>>
    /\ \E l \in Layouts : watch = [NoWatch EXCEPT !.phase = "main", !.layout = l]

\* main, after processBuildQueue returned: if (whatToDo.watch) { ... }
StartWatching ==
    /\ watch.phase = "main"
    /\ pc = "idle" /\ walkResult \in {"done", "halted"}
    /\ watch' = [watch EXCEPT !.phase = "watching", !.installs = 1,
                              !.active = installAll(graph, watch.layout, 1, fs)]
    /\ UNCHANGED <<config, walkState, trav, mapper, calls, attempts>>

\* A directory or file watcher's callback: rebuildProject(configFile, path).
OnFileEvent ==
    /\ mayRunCallback
    /\ \E w \in watch.active : \E f \in changedFiles(w) :
        StartWalk(graph,
                  [watch EXCEPT !.active = (watch.active \ {w})
                                           \cup {[w EXCEPT !.seen[f] = fs[f]]},
                                !.arrived = IF watch.arrived = f THEN NoFile
                                            ELSE watch.arrived,
                                !.served = watch.served \/ watch.arrived = f])
    /\ UNCHANGED <<config, graph, flags, prev, changed, walks, edits, probe,
                   trav, mapper, calls, attempts>>

\* A configuration watcher's callback: rebuildGraph().
OnConfigEvent ==
    /\ mayRunCallback
    /\ \E w \in watch.active :
        /\ w.dirty
        /\ graph' = createDependencyGraph(roots)
        /\ StartWalk(graph',
                     [watch EXCEPT !.installs = watch.installs + 1,
                                   !.active = closeListed(watch.active)
                                       \cup installAll(graph', watch.layout,
                                                       watch.installs + 1, fs)])
    /\ UNCHANGED <<config, flags, prev, changed, walks, edits, probe,
                   trav, mapper, calls, attempts>>

\* The user saves an input file of a project of the queue.
ExternalEdit ==
    /\ pc \in {"walk", "idle"} /\ walkResult # "threw"
    /\ edits < MaxChanges
    /\ \E p \in Range(flatten(graph.buildQueue)) :
        /\ fs' = writeFileSync(fs, <<p, "ts">>, <<>>, now)
        /\ watch' = [watch EXCEPT !.arrived = IF pc = "walk" /\ watch.phase = "watching"
                                              THEN <<p, "ts">> ELSE watch.arrived]
    /\ now' = now + 1
    /\ edits' = edits + 1
    /\ UNCHANGED <<config, graph, pc, flags, buildQueue, nextSet, unchangedOutputs,
                   walkLog, walkResult, prev, changed, walks, probe,
                   trav, mapper, calls, attempts>>

\* The user saves the configuration file of a project of the queue.
SaveConfig ==
    /\ watch.phase = "watching" /\ walkResult # "threw"
    /\ edits < MaxChanges
    /\ \E p \in Range(flatten(graph.buildQueue)) :
        watch' = [watch EXCEPT !.active =
                     {IF w.kind = "config" /\ w.proj = p THEN [w EXCEPT !.dirty = TRUE]
                      ELSE w : w \in watch.active}]
    /\ edits' = edits + 1
    /\ UNCHANGED <<config, graph, fs, now, pc, flags, buildQueue, nextSet,
                   unchangedOutputs, walkLog, walkResult, prev, changed, walks, probe,
                   trav, mapper, calls, attempts>>

\* The steps of the program, as opposed to those of the user.
ProgramStep ==
    \/ Main
    \/ PopLayer
    \/ ProcessProject
    \/ FinishWalk
    \/ StartWatching
    \/ OnFileEvent
    \/ OnConfigEvent

NextWatch ==
    \/ Main
    \/ PopLayer
    \/ ProcessProject
    \/ FinishWalk
    \/ StartWatching
    \/ OnFileEvent
    \/ OnConfigEvent
    \/ ExternalEdit
    \/ SaveConfig

\* The event loop runs a callback that is due, and a walk runs to its end.
SpecWatch == InitWatch /\ [][NextWatch]_vars /\ WF_vars(ProgramStep)

\* ------------------------------------------------------------------------
\* The analyzer on its own: project C, its references A and B, every state
\* of the files it reads and every content of unchangedOutputs.
\* ------------------------------------------------------------------------
Mtimes == 0..MaxMtime

FileStates == {Absent} \cup {[exists |-> TRUE, mtime |-> m, content |-> <<>>] : m \in Mtimes}

ProbedFiles == {<<"C", "ts">>, <<"C", "js">>, <<"C", "dts">>, <<"A", "dts">>, <<"B", "dts">>}
UpstreamDts == {<<"A", "dts">>, <<"B", "dts">>}

InitAnalyze ==
    /\ refs \in {Graph(<<>>, <<"A", "B">>), Graph(<<>>, <<"B">>), Graph(<<>>, <<>>)}
    /\ parseable = [p \in Proj |-> TRUE]
    /\ cfg \in {Cfg(Plain, Plain, c) : c \in {Plain, NoDecl, Solution, Bundle}}
    /\ roots = <<"C">>
    /\ fs \in {[f \in File |-> IF f \in ProbedFiles THEN t[f] ELSE Absent] :
                  t \in [ProbedFiles -> FileStates]}
    /\ now = MaxMtime + 1
    /\ InitRest
    /\ InitComponents
    /\ unchangedOutputs \in
         UNION {[keys -> Mtimes] : keys \in SUBSET UpstreamDts}

\* checkUpToDateRelativeToInputs(parseConfigFile(proj), proj, context)
Analyze ==
    /\ pc = "init"
    /\ probe' = [proj |-> "C",
                 status |-> checkUpToDateRelativeToInputs("C", unchangedOutputs)]
    /\ pc' = "probed"
    /\ UNCHANGED <<config, graph, fs, now, flags, buildQueue, nextSet,
                   unchangedOutputs, walkLog, walkResult, prev, changed, walks,
                   edits, components>>

NextAnalyze == Analyze

SpecAnalyze == InitAnalyze /\ [][NextAnalyze]_vars

\* ========================================================================
\* Properties
\* ========================================================================
LayersOf(queue, p) == {i \in 1..Len(queue) : Contains(queue[i], p)}

GraphBuilt == pc = "graphed" /\ graph.error = NoError

\* The projects the traversal reaches: the roots, and the readable references
\* of every project reached.
RECURSIVE ReachableFrom(_, _)
ReachableFrom(ps, n) ==
    IF n = 0 THEN ps
    ELSE ReachableFrom(ps \cup {r \in Proj : parseable[r] /\
                                   \E p \in ps : r \in Range(refs[p])}, n - 1)

ReachableProjects == ReachableFrom(Range(roots), Cardinality(Proj))

\* The queue before removeDuplicatesFromBuildQueue.
RawQueue ==
    enumerateRoots(roots, [queue |-> <<>>, pos |-> 0, map |-> EmptyMapper,
                           error |-> NoError]).queue

\* C1: in the queue createDependencyGraph returns for an acyclic graph, every
\* readable reference R of a project P of layer i lies in a layer j > i.
C1_ReferencesInDeeperLayers ==
    GraphBuilt =>
        \A i \in 1..Len(graph.buildQueue) : \A P \in Range(graph.buildQueue[i]) :
            \A R \in Range(refs[P]) :
                parseable[R] =>
                    \E j \in (i + 1)..Len(graph.buildQueue) :
                        Contains(graph.buildQueue[j], R)

\* A project is met at two depths, and a root is also another root's reference.
C1_Witness ==
    /\ GraphBuilt
    /\ Len(graph.buildQueue) >= 3
    /\ \E P \in Proj : Cardinality(LayersOf(RawQueue, P)) >= 2
    /\ \E P \in Range(roots) : \E Q \in Range(roots) : P \in Range(refs[Q])

\* C3: every project reachable from the roots through readable references is
\* in exactly one layer of the queue, once.
C3_ExactlyOneLayer ==
    GraphBuilt =>
        \A P \in ReachableProjects :
            /\ Cardinality(LayersOf(graph.buildQueue, P)) = 1
            /\ \A i \in LayersOf(graph.buildQueue, P) :
                   Cardinality({k \in 1..Len(graph.buildQueue[i]) :
                                   graph.buildQueue[i][k] = P}) = 1

\* A project met at three depths, with two roots.
C3_Witness ==
    /\ GraphBuilt
    /\ Len(roots) >= 2
    /\ roots[1] # roots[2]
    /\ \E P \in Proj : Cardinality(LayersOf(RawQueue, P)) >= 3

\* The oldest mtime among the outputs the analyzer expects of p; Infinity
\* when it expects none.
OldestOutputTime(p) ==
    LET outs == Range(allOutputsOf(p))
    IN  IF outs = {} THEN Infinity
        ELSE CHOOSE m \in {fs[f].mtime : f \in outs} :
                 \A f \in outs : m <= fs[f].mtime

UpstreamFiles(p) == Range(referenceInputsOf(refs[p]))

OwnInputFiles(p) == Range(fileNames(p))

RecordedNotNewer(ctx, f, p) == f \in DOMAIN ctx /\ ctx[f] <= OldestOutputTime(p)

\* C8: the analyzer answers pseudo-up-to-date for D only if (a) some upstream
\* reference file is recorded in unchangedOutputs with a prior mtime not
\* after D's oldest output, and (b) every own input of D and every upstream
\* reference file not skipped under (a) is not newer than D's oldest output.
C8_PseudoUpToDateSound ==
    (pc = "probed" /\ probe.status.result = "pseudo-up-to-date") =>
        LET D == probe.proj IN
        /\ \E f \in UpstreamFiles(D) : RecordedNotNewer(unchangedOutputs, f, D)
        /\ \A f \in OwnInputFiles(D) : fs[f].mtime <= OldestOutputTime(D)
        /\ \A f \in UpstreamFiles(D) :
               ~RecordedNotNewer(unchangedOutputs, f, D)
                   => fs[f].mtime <= OldestOutputTime(D)

\* Pseudo-up-to-date with one upstream file skipped, newer than D's outputs,
\* and another recorded but compared by its own mtime.
C8_Witness ==
    /\ pc = "probed" /\ probe.status.result = "pseudo-up-to-date"
    /\ \E f \in UpstreamFiles("C") :
          /\ RecordedNotNewer(unchangedOutputs, f, "C")
          /\ fs[f].mtime > OldestOutputTime("C")
    /\ \E f \in UpstreamFiles("C") :
          /\ f \in DOMAIN unchangedOutputs
          /\ ~RecordedNotNewer(unchangedOutputs, f, "C")

\* ------------------------------------------------------------------------
\* The walk
\* ------------------------------------------------------------------------
QueueProjects == Range(flatten(graph.buildQueue))

EntriesOf(log, p) == {k \in 1..Len(log) : log[k].proj = p}

WalkCompleted == pc = "idle" /\ walkResult = "done"

\* The project was not up-to-date when analysed.
NeededBuilding(e) == e.status # "up-to-date"

\* buildProject ran for it, or the pseudo-build succeeded.
BuiltOrPseudoBuilt(e) == e.built \/ e.pseudo = "done"

AnalysedOnceInOrder ==
    /\ \A p \in QueueProjects : Cardinality(EntriesOf(walkLog, p)) = 1
    /\ \A k \in 1..Len(walkLog) : \A r \in Range(refs[walkLog[k].proj]) :
           \E j \in 1..(k - 1) :
               /\ walkLog[j].proj = r
               /\ NeededBuilding(walkLog[j]) => BuiltOrPseudoBuilt(walkLog[j])
    /\ walkLog # <<>> =>
           Contains(graph.buildQueue[Len(graph.buildQueue)], walkLog[1].proj)

\* C2 as stated: in every completed walk each project of the queue is analysed
\* exactly once, after each of its references was analysed and, if it needed
\* building, built or pseudo-built; the first project analysed is of the
\* deepest layer.
C2_WalkOrderAnyWalk == WalkCompleted => AnalysedOnceInOrder

\* C2: in every completed walk without --dry each project of the queue is
\* analysed exactly once, after each of its references was analysed and, if
\* it needed building, built or pseudo-built in that walk; the first project
\* analysed is of the deepest layer.
C2_WalkOrder == (WalkCompleted /\ ~flags.dry) => AnalysedOnceInOrder

\* A completed second walk over three layers with a compile and a pseudo-build.
C2_Witness ==
    /\ WalkCompleted /\ ~flags.dry /\ walks = 2
    /\ Len(graph.buildQueue) = 3
    /\ \E k \in 1..Len(walkLog) : walkLog[k].compiled
    /\ \E k \in 1..Len(walkLog) : walkLog[k].pseudo = "done"

\* The outputs section 4.4 expects of p, and the input files p declares.
ExpectedOutputs(p) ==
    IF cfg[p].nIn = 0 THEN {}
    ELSE {<<p, "js">>} \cup (IF cfg[p].declaration THEN {<<p, "dts">>} ELSE {})

DeclaredInputs(p) == IF cfg[p].nIn = 0 THEN {} ELSE {<<p, "ts">>}

\* C4: after a walk without --dry that completed, and before any later change
\* of the file system, every expected output of every project of the queue
\* exists and is not older than any declared input of that project.
C4_OutputsCurrentAfterWalk ==
    (WalkCompleted /\ ~flags.dry /\ ~changed) =>
        \A P \in QueueProjects : \A o \in ExpectedOutputs(P) :
            /\ fs[o].exists
            /\ \A i \in DeclaredInputs(P) : fs[i].exists /\ fs[o].mtime >= fs[i].mtime

\* A completed walk that compiled one project after an edit and pseudo-built
\* another.
C4_Witness ==
    /\ WalkCompleted /\ ~flags.dry /\ ~changed /\ edits = 1
    /\ \E k \in 1..Len(walkLog) :
          walkLog[k].compiled /\ walkLog[k].status = "out-of-date"
    /\ \E k \in 1..Len(walkLog) : walkLog[k].pseudo = "done"

\* The walk before this one completed and nothing changed on disk since.
SecondQuietWalk == walks >= 2 /\ prev.result = "done" /\ prev.quiet /\ ~flags.force

NoCompileAllCurrent ==
    /\ walkResult \in {"running", "done"}
    /\ \A k \in 1..Len(walkLog) :
          /\ ~walkLog[k].compiled
          /\ walkLog[k].status \in {"up-to-date", "pseudo-up-to-date"}
    /\ WalkCompleted => \A p \in QueueProjects : EntriesOf(walkLog, p) # {}

\* C5 as stated: after a walk that completed, a second walk with no change of
\* the file system in between and --force off compiles nothing and classifies
\* every project up-to-date or pseudo-up-to-date.
C5_SecondWalkIdleAnyWalk == SecondQuietWalk => NoCompileAllCurrent

\* C5: after a walk without --dry that completed, a second walk with no
\* change of the file system in between and --force off compiles nothing and
\* classifies every project up-to-date or pseudo-up-to-date.
C5_SecondWalkIdle == (SecondQuietWalk /\ ~prev.dry) => NoCompileAllCurrent

\* The second walk completed after a first walk that compiled one project and
\* pseudo-built another.
C5_Witness ==
    /\ SecondQuietWalk /\ ~prev.dry /\ WalkCompleted
    /\ \E k \in 1..Len(prev.log) : prev.log[k].compiled
    /\ \E k \in 1..Len(prev.log) : prev.log[k].pseudo = "done"

\* C9: once the callback returned false for a project, the walk has ended:
\* that project's entry is the last of the walk, the queue is dropped and no
\* project is analysed, compiled or pseudo-built after it.
C9_ShortCircuit ==
    /\ \A k \in 1..Len(walkLog) : walkLog[k].keepGoing = "false" => k = Len(walkLog)
    /\ (walkLog # <<>> /\ walkLog[Len(walkLog)].keepGoing = "false") =>
           /\ pc = "idle" /\ walkResult = "halted"
           /\ nextSet = <<>> /\ buildQueue = <<>>

\* A compile with an error flag ended the walk with a project of the same
\* layer and a project of a shallower layer not analysed.
C9_Witness ==
    /\ walkResult = "halted"
    /\ walkLog[Len(walkLog)].compiled
    /\ walkLog[Len(walkLog)].flagsSet # {}
    /\ \E i \in 1..Len(graph.buildQueue) :
          /\ Contains(graph.buildQueue[i], walkLog[Len(walkLog)].proj)
          /\ \E q \in Range(graph.buildQueue[i]) : EntriesOf(walkLog, q) = {}
          /\ i > 1
          /\ \E q \in Range(graph.buildQueue[i - 1]) : EntriesOf(walkLog, q) = {}

\* U's compile at entry k is followed by the analysis of its direct consumer D
\* at entry j.
ConsumerAfter(k, j) ==
    /\ k < j
    /\ walkLog[k].compiled
    /\ walkLog[k].proj \in Range(refs[walkLog[j].proj])

\* C6 as stated: with --force and --dry off, when the compile of U rewrote
\* its declaration file with the text it had, every direct consumer D of U
\* without a prepend reference that was up-to-date before U's compile is
\* classified pseudo-up-to-date, has its outputs touched and is not compiled.
C6_ByteIdenticalCascade ==
    (~flags.force /\ ~flags.dry) =>
        \A k, j \in 1..Len(walkLog) :
            ( /\ ConsumerAfter(k, j)
              /\ walkLog[k].dts = "same"
              /\ walkLog[j].proj \in walkLog[k].current
              /\ cfg[walkLog[j].proj].prepend = {} )
            => /\ walkLog[j].status = "pseudo-up-to-date"
               /\ walkLog[j].pseudo = "done"
               /\ ~walkLog[j].compiled

\* C7 as stated: when the compile of U rewrote its declaration file with a
\* different text, every direct consumer D of U is classified out-of-date and
\* compiled in that walk.
C7_RealCascadeAnyConsumer ==
    (pc = "idle" /\ walkResult \in {"done", "halted"}) =>
        \A k \in 1..Len(walkLog) :
            (walkLog[k].compiled /\ walkLog[k].dts = "changed") =>
                \A D \in QueueProjects :
                    walkLog[k].proj \in Range(refs[D]) =>
                        \E j \in EntriesOf(walkLog, D) :
                            /\ k < j
                            /\ walkLog[j].status = "out-of-date"
                            /\ walkLog[j].compiled

\* C7: when the compile of U rewrote its declaration file with a different
\* text, every direct consumer D of U that the walk goes on to analyse and
\* that has input files, all present, is classified out-of-date or missing,
\* never up-to-date or pseudo-up-to-date, and is compiled in that walk.
C7_RealCascade ==
    \A k, j \in 1..Len(walkLog) :
        ( /\ ConsumerAfter(k, j)
          /\ walkLog[k].dts = "changed"
          /\ cfg[walkLog[j].proj].nIn > 0
          /\ walkLog[j].status # "unbuildable" )
        => /\ walkLog[j].status \in {"out-of-date", "missing"}
           /\ walkLog[j].compiled

\* D is compiled after one reference rewrote a different declaration text
\* while another reference's declaration file is recorded in unchangedOutputs.
C7_Witness ==
    \E k, j \in 1..Len(walkLog) :
        /\ ConsumerAfter(k, j)
        /\ walkLog[k].dts = "changed"
        /\ walkLog[j].status = "out-of-date" /\ walkLog[j].compiled
        /\ \E i \in 1..(j - 1) :
              /\ i # k
              /\ walkLog[i].proj \in Range(refs[walkLog[j].proj])
              /\ walkLog[i].dts = "same"

\* The walk before this one ended on a compile that set an error flag, and
\* nothing changed on disk since.
AfterFailedCompile ==
    /\ walks >= 2 /\ prev.quiet /\ prev.log # <<>>
    /\ prev.log[Len(prev.log)].compiled
    /\ prev.log[Len(prev.log)].flagsSet # {}

\* C10 as stated: in the walk after a compile of P that set an error flag,
\* with no change of the file system in between, P is classified out-of-date
\* or missing and compiled again.
C10_FailedCompileRetried ==
    AfterFailedCompile =>
        \A k \in EntriesOf(walkLog, prev.log[Len(prev.log)].proj) :
            /\ walkLog[k].status \in {"out-of-date", "missing"}
            /\ walkLog[k].compiled

\* No entry of the walk's log shows the compiler, buildProject or the
\* pseudo-builder at work.
NothingInvoked ==
    \A k \in 1..Len(walkLog) :
        ~walkLog[k].compiled /\ ~walkLog[k].built /\ walkLog[k].pseudo = "no"

\* C11: in a process started with --dry, no step of a walk changes a file's
\* existence, content or mtime; neither the compiler nor the pseudo-builder
\* is invoked for any project, and unchangedOutputs stays empty.
C11_DryWalkChangesNothing ==
    /\ [](flags.dry => (NothingInvoked /\ unchangedOutputs = EmptyFileMap))
    /\ [][(flags.dry /\ pc = "walk") => (fs' = fs /\ now' = now)]_vars

\* A second --dry walk completed, having found one project out-of-date and
\* another up-to-date.
C11_Witness ==
    /\ flags.dry /\ WalkCompleted /\ walks = 2
    /\ \E k \in 1..Len(walkLog) : walkLog[k].status = "out-of-date"
    /\ \E k \in 1..Len(walkLog) : walkLog[k].status = "up-to-date"

\* C12 as stated: a project analysed after one of its references whose status
\* in this walk was not up-to-date is classified older-than-dependency,
\* naming a reference of that kind.
C12_OlderThanDependency ==
    \A j \in 1..Len(walkLog) :
        LET stale == {k \in 1..(j - 1) :
                         /\ walkLog[k].proj \in Range(refs[walkLog[j].proj])
                         /\ walkLog[k].status # "up-to-date"}
        IN  stale # {} =>
                /\ walkLog[j].status = "older-than-dependency"
                /\ \E k \in stale : walkLog[j].utd.file[1] = walkLog[k].proj

\* C13 as stated: with --force and without --dry the compiler runs for every
\* project the walk analysed and did not find unbuildable.
C13_ForceCompilesAny ==
    (flags.force /\ ~flags.dry) =>
        \A k \in 1..Len(walkLog) :
            walkLog[k].status \notin {"unbuildable", "threw"} => walkLog[k].compiled

\* C13: with --force and without --dry, for every project the walk analysed
\* and did not find unbuildable, buildProject runs and no pseudo-build is
\* attempted, whatever the status; the compiler runs for every such project
\* that has input files.
C13_ForceCompilesAll ==
    (flags.force /\ ~flags.dry) =>
        \A k \in 1..Len(walkLog) :
            walkLog[k].status \notin {"unbuildable", "threw"} =>
                /\ walkLog[k].built
                /\ walkLog[k].pseudo = "no"
                /\ cfg[walkLog[k].proj].nIn > 0 => walkLog[k].compiled

\* Under --force an up-to-date project and a pseudo-up-to-date project were
\* both compiled in one walk.
C13_Witness ==
    /\ flags.force /\ ~flags.dry
    /\ \E k \in 1..Len(walkLog) :
          walkLog[k].status = "up-to-date" /\ walkLog[k].compiled
    /\ \E k \in 1..Len(walkLog) :
          walkLog[k].status = "pseudo-up-to-date" /\ walkLog[k].compiled

\* A declared input of the entry's project was absent when it was analysed.
InputAbsentAt(e) == \E f \in DeclaredInputs(e.proj) : ~e.pre[f].exists

\* C14: a project analysed while one of its declared inputs is absent is
\* classified unbuildable, whatever the state of its outputs and references
\* and whatever the flags; the callback returns false and neither
\* buildProject, the compiler nor the pseudo-builder runs for it.
C14_MissingInputUnbuildable ==
    \A k \in 1..Len(walkLog) :
        InputAbsentAt(walkLog[k]) =>
            /\ walkLog[k].status = "unbuildable"
            /\ walkLog[k].keepGoing = "false"
            /\ ~walkLog[k].built /\ ~walkLog[k].compiled
            /\ walkLog[k].pseudo = "no"

\* Under --force, a project with outputs on disk and references analysed
\* before it lost its input and was found unbuildable.
C14_Witness ==
    /\ flags.force /\ ~flags.dry
    /\ \E k \in 2..Len(walkLog) :
          /\ InputAbsentAt(walkLog[k])
          /\ refs[walkLog[k].proj] # <<>>
          /\ \A o \in ExpectedOutputs(walkLog[k].proj) : walkLog[k].pre[o].exists

\* The next project of the walk has no input files.
SolutionNext == pc = "walk" /\ nextSet # <<>> /\ cfg[Head(nextSet)].nIn = 0

\* C16 as stated: a project without input files is classified up-to-date in
\* every walk, and the step that handles it leaves every file as it was.
C16_SolutionAlwaysUpToDate ==
    /\ [](\A k \in 1..Len(walkLog) :
              cfg[walkLog[k].proj].nIn = 0 => walkLog[k].status = "up-to-date")
    /\ [][SolutionNext => fs' = fs]_vars

\* The entry's project had outputs to produce, none of them on disk, and all
\* its inputs on disk when it was analysed.
Cold(e) ==
    /\ ExpectedOutputs(e.proj) # {}
    /\ \A i \in DeclaredInputs(e.proj) : e.pre[i].exists
    /\ \A o \in ExpectedOutputs(e.proj) : ~e.pre[o].exists

\* The output the analyzer looks at first: the .d.ts when declaration is set.
FirstExpectedOutput(p) == IF cfg[p].declaration THEN <<p, "dts">> ELSE <<p, "js">>

CompiledEntries(p) == {k \in EntriesOf(walkLog, p) : walkLog[k].compiled}

\* C17: a project analysed with its inputs present and every expected output
\* absent is classified missing, naming its first expected output, whatever
\* the state of its references; a completed walk without --dry in which
\* every project was found so compiles each project exactly once, after the
\* projects it references.
C17_ColdBuild ==
    /\ \A k \in 1..Len(walkLog) :
           Cold(walkLog[k]) =>
               /\ walkLog[k].status = "missing"
               /\ walkLog[k].utd.file = FirstExpectedOutput(walkLog[k].proj)
    /\ (WalkCompleted /\ ~flags.dry /\ \A k \in 1..Len(walkLog) : Cold(walkLog[k])) =>
           \A p \in QueueProjects :
               /\ Cardinality(CompiledEntries(p)) = 1
               /\ \A r \in Range(refs[p]) : \A k \in CompiledEntries(p) :
                      \E j \in CompiledEntries(r) : j < k

\* The cold build of a chain of three projects completed.
C17_Witness ==
    /\ WalkCompleted /\ ~flags.dry /\ ~flags.force
    /\ Len(graph.buildQueue) = 3 /\ Len(walkLog) = 3
    /\ \A k \in 1..Len(walkLog) : Cold(walkLog[k])

\* The oldest mtime among the expected outputs of the entry's project when
\* it was analysed.
OldestExpectedAt(e) ==
    CHOOSE m \in {e.pre[f].mtime : f \in ExpectedOutputs(e.proj)} :
        \A f \in ExpectedOutputs(e.proj) : m <= e.pre[f].mtime

\* The entry's project had its inputs and expected outputs on disk, and the
\* .js output of one of its references was newer than its oldest output.
UpstreamJsNewerAt(e) ==
    /\ ExpectedOutputs(e.proj) # {}
    /\ \A f \in DeclaredInputs(e.proj) \cup ExpectedOutputs(e.proj) : e.pre[f].exists
    /\ \E r \in Range(refs[e.proj]) :
          /\ e.pre[<<r, "js">>].exists
          /\ e.pre[<<r, "js">>].mtime > OldestExpectedAt(e)

\* C19 as stated: an outFile project analysed while the .js output of one of
\* its references is newer than its own oldest output is classified
\* out-of-date, here with every upstream .d.ts not newer than that output.
C19_UpstreamJsIsInput ==
    \A k \in 1..Len(walkLog) :
        ( /\ cfg[walkLog[k].proj].outFile
          /\ UpstreamJsNewerAt(walkLog[k])
          /\ \A r \in Range(refs[walkLog[k].proj]) :
                 /\ walkLog[k].pre[<<r, "dts">>].exists
                 /\ walkLog[k].pre[<<r, "dts">>].mtime <= OldestExpectedAt(walkLog[k]) )
        => walkLog[k].status = "out-of-date"

\* C20 as stated: tryPseudoBuild never raises; when it does not pseudo-build
\* a pseudo-up-to-date project it returns false and buildProject runs for
\* that project in the same step.
C20_PseudoBuilderNeverRaises ==
    \A k \in 1..Len(walkLog) :
        /\ walkLog[k].pseudo # "threw"
        /\ walkLog[k].pseudo = "refused" => walkLog[k].built

\* ------------------------------------------------------------------------
\* The analyzer
\* ------------------------------------------------------------------------
UpToDateStatusValues ==
    {"unbuildable", "up-to-date", "pseudo-up-to-date", "missing", "out-of-date",
     "older-than-dependency"}

Probed == pc = "probed"

\* C15 as stated: for every state of the files the analyzer reads it returns
\* one of the six status values and does not raise.
C15_AnalyzerNeverRaises == Probed => probe.status.result \in UpToDateStatusValues

\* The probed project has no references, one input on disk and every
\* expected output on disk.
ProbedAlone ==
    /\ Probed
    /\ refs[probe.proj] = <<>>
    /\ DeclaredInputs(probe.proj) # {}
    /\ \A f \in DeclaredInputs(probe.proj) \cup ExpectedOutputs(probe.proj) :
           fs[f].exists

NewestInputTime(p) ==
    CHOOSE m \in {fs[f].mtime : f \in DeclaredInputs(p)} :
        \A f \in DeclaredInputs(p) : fs[f].mtime <= m

OldestExpectedTime(p) ==
    CHOOSE m \in {fs[f].mtime : f \in ExpectedOutputs(p)} :
        \A f \in ExpectedOutputs(p) : m <= fs[f].mtime

\* C18: for a project without references whose inputs and expected outputs
\* all exist, the analyzer answers out-of-date exactly when the newest input
\* is strictly newer than the oldest output, and otherwise up-to-date with
\* the newest input's mtime as timestamp.
C18_OutOfDateIffStrictlyNewer ==
    ProbedAlone =>
        LET D == probe.proj IN
        /\ probe.status.result = "out-of-date"
               <=> NewestInputTime(D) > OldestExpectedTime(D)
        /\ probe.status.result # "out-of-date" =>
               /\ probe.status.result = "up-to-date"
               /\ probe.status.timestamp = NewestInputTime(D)

\* The input is as old as the oldest output, a later output is newer, and
\* the answer is up-to-date.
C18_Witness ==
    /\ ProbedAlone
    /\ probe.status.result = "up-to-date"
    /\ NewestInputTime(probe.proj) = OldestExpectedTime(probe.proj)
    /\ NewestInputTime(probe.proj) > 0
    /\ \E f \in ExpectedOutputs(probe.proj) :
          fs[f].mtime > OldestExpectedTime(probe.proj)

\* ------------------------------------------------------------------------
\* The pseudo-builder and the compile, step by step
\* ------------------------------------------------------------------------
\* The last step of the walk, while the files are as that step left them.
LastEntry == walkLog[Len(walkLog)]

JustProcessed == walkLog # <<>> /\ ~changed /\ now = LastEntry.at + 1

\* The bundle a compile of p would write now: the bundles of its prepended
\* references in declaration order, then p's own emit.
FreshPrefix(p) == prependedText(fs, p, refs[p])

FreshBundle(p) == FreshPrefix(p) \o ownText(p)

\* C21 as stated: after the pseudo-build of an outFile project P with prepend
\* references, P's bundle, its descriptor and the text at originalOffset are
\* those of a compile of P against the upstream bundles now on disk.
C21_BundleRoundTrip ==
    (JustProcessed /\ LastEntry.pseudo = "done" /\ cfg[LastEntry.proj].prepend # {}) =>
        LET P == LastEntry.proj
            bundle == fs[<<P, "js">>].content
            info == fs[<<P, "info">>].content
        IN  /\ bundle = FreshBundle(P)
            /\ info = <<Len(FreshPrefix(P)), Len(FreshBundle(P))>>
            /\ SubSeq(bundle, info[1] + 1, Len(bundle)) = ownText(P)

\* C22 as stated: after the pseudo-build of a project without prepend
\* references every expected output carries the time of the pseudo-build and
\* its former content, unchangedOutputs maps it to its former mtime, and no
\* other file has changed.
C22_TouchForward ==
    (JustProcessed /\ LastEntry.pseudo = "done" /\ cfg[LastEntry.proj].prepend = {}) =>
        LET e == LastEntry IN
        /\ \A f \in ExpectedOutputs(e.proj) :
               /\ fs[f].exists /\ fs[f].mtime = e.at
               /\ fs[f].content = e.pre[f].content
               /\ f \in DOMAIN unchangedOutputs
               /\ unchangedOutputs[f] = e.pre[f].mtime
        /\ \A g \in File \ ExpectedOutputs(e.proj) : fs[g] = e.pre[g]

\* The files recorded in unchangedOutputs by the last step.
NewlyRecorded == DOMAIN unchangedOutputs \ DOMAIN LastEntry.ctx

\* The last step wrote f, which was on disk before, with the text it had.
RewrittenIdentical(f) ==
    /\ LastEntry.pre[f].exists
    /\ fs[f].exists /\ fs[f].mtime = LastEntry.at
    /\ fs[f].content = LastEntry.pre[f].content

\* C23: a compile records an output in unchangedOutputs exactly when it is
\* a declaration file that was on disk and is written with the text it had;
\* the value recorded is its mtime before the write, the write advances the
\* mtime, and the entries already recorded are kept.  During a walk every
\* entry of unchangedOutputs is at most the mtime of its file.
C23_UnchangedRecorded ==
    /\ (JustProcessed /\ LastEntry.compiled) =>
           /\ \A f \in File :
                  f \in NewlyRecorded <=> (isDeclarationFile(f) /\ RewrittenIdentical(f))
           /\ \A f \in NewlyRecorded :
                  /\ unchangedOutputs[f] = LastEntry.pre[f].mtime
                  /\ fs[f].mtime > LastEntry.pre[f].mtime
           /\ \A f \in DOMAIN LastEntry.ctx :
                  f \in DOMAIN unchangedOutputs /\ unchangedOutputs[f] = LastEntry.ctx[f]
    /\ (pc = "walk" \/ ~changed) =>
           \A f \in DOMAIN unchangedOutputs :
               fs[f].exists /\ unchangedOutputs[f] <= fs[f].mtime

\* A compile rewrote its declaration file with the same text while another
\* file was already recorded; an earlier compile of the walk wrote a
\* different declaration text and recorded nothing.
C23_Witness ==
    /\ JustProcessed /\ LastEntry.compiled
    /\ <<LastEntry.proj, "dts">> \in NewlyRecorded
    /\ LastEntry.ctx # EmptyFileMap
    /\ \E k \in 1..(Len(walkLog) - 1) :
          walkLog[k].compiled /\ walkLog[k].dts = "changed"

\* ------------------------------------------------------------------------
\* The callback's answer
\* ------------------------------------------------------------------------
\* The analyzer returned a status for the entry's project, so the callback
\* was called.
CallbackCalled(e) == e.status # "threw"

ReturnsFalseIffFatal(e) ==
    e.keepGoing = "false" <=> (e.status = "unbuildable" \/ e.flagsSet # {})

\* A pseudo-build that succeeded, an up-to-date project that was skipped and
\* a project without input files.
ReturnsTrueWhenNothingFailed(e) ==
    /\ e.pseudo = "done" => e.keepGoing = "true"
    /\ (e.status = "up-to-date" /\ ~e.built) => e.keepGoing = "true"
    /\ cfg[e.proj].nIn = 0 => e.keepGoing = "true"

\* The last step compiled with type errors: the walk is over and every
\* expected output of the project was written by that step.
TypeErrorsHaltAfterEmit ==
    (JustProcessed /\ "TypeErrors" \in LastEntry.flagsSet) =>
        /\ LastEntry.keepGoing = "false"
        /\ pc = "idle" /\ walkResult = "halted"
        /\ \A o \in ExpectedOutputs(LastEntry.proj) :
               fs[o].exists /\ fs[o].mtime = LastEntry.at

\* The last step compiled with type errors: the walk is over and that step
\* wrote every expected output of the project that the declaration
\* diagnostics did not hold back (the .d.ts file, when the same compile
\* reported declaration diagnostics).
TypeErrorsHaltAfterEmitted ==
    (JustProcessed /\ "TypeErrors" \in LastEntry.flagsSet) =>
        /\ LastEntry.keepGoing = "false"
        /\ pc = "idle" /\ walkResult = "halted"
        /\ \A o \in ExpectedOutputs(LastEntry.proj) :
               (isDeclarationFile(o) /\ "DeclarationEmitErrors" \in LastEntry.flagsSet)
               \/ (fs[o].exists /\ fs[o].mtime = LastEntry.at)

\* C24 as stated: the callback returns false exactly when the status is
\* unbuildable or the compile set an error flag; a successful pseudo-build,
\* a skipped up-to-date project, a project without inputs and every step
\* under --dry return true; type errors halt the walk after the outputs
\* were written.
C24_CallbackResultAnyDry ==
    /\ \A k \in 1..Len(walkLog) :
           CallbackCalled(walkLog[k]) =>
               /\ ReturnsFalseIffFatal(walkLog[k])
               /\ ReturnsTrueWhenNothingFailed(walkLog[k])
               /\ flags.dry => walkLog[k].keepGoing = "true"
    /\ TypeErrorsHaltAfterEmit

\* C24: the callback returns false exactly when the status is unbuildable
\* or the compile set an error flag; a successful pseudo-build, a skipped
\* up-to-date project, a project without inputs and every step under --dry
\* whose status is not unbuildable return true; type errors halt the walk
\* after the outputs were written, the .d.ts file excepted when the compile
\* reported declaration diagnostics as well.
C24_CallbackResult ==
    /\ \A k \in 1..Len(walkLog) :
           CallbackCalled(walkLog[k]) =>
               /\ ReturnsFalseIffFatal(walkLog[k])
               /\ ReturnsTrueWhenNothingFailed(walkLog[k])
               /\ (flags.dry /\ walkLog[k].status # "unbuildable")
                      => walkLog[k].keepGoing = "true"
    /\ TypeErrorsHaltAfterEmitted

\* After a project that was skipped as up-to-date, a compile with type
\* errors wrote its outputs and halted the walk.
C24_Witness ==
    /\ JustProcessed /\ LastEntry.flagsSet = {"TypeErrors"}
    /\ walkResult = "halted"
    /\ \E k \in 1..(Len(walkLog) - 1) :
          walkLog[k].status = "up-to-date" /\ ~walkLog[k].built

DeclarationFiles == {f \in File : isDeclarationFile(f)}

\* C25: a compile with syntactic or options diagnostics writes no file and
\* records nothing; a compile with declaration diagnostics writes the
\* project's .js output, leaves every .d.ts file as it was and records
\* nothing in unchangedOutputs.
C25_DiagnosticsGateEmission ==
    /\ (JustProcessed /\ "SyntaxErrors" \in LastEntry.flagsSet) =>
           fs = LastEntry.pre /\ unchangedOutputs = LastEntry.ctx
    /\ (JustProcessed /\ "DeclarationEmitErrors" \in LastEntry.flagsSet) =>
           /\ fs[<<LastEntry.proj, "js">>].exists
           /\ fs[<<LastEntry.proj, "js">>].mtime = LastEntry.at
           /\ \A f \in DeclarationFiles : fs[f] = LastEntry.pre[f]
           /\ unchangedOutputs = LastEntry.ctx

\* A compile with declaration diagnostics rewrote a .js file that was on
\* disk and kept the declaration file that was on disk, after another step
\* of the walk had recorded a file.
C25_Witness ==
    /\ JustProcessed /\ "DeclarationEmitErrors" \in LastEntry.flagsSet
    /\ LastEntry.pre[<<LastEntry.proj, "js">>].exists
    /\ LastEntry.pre[<<LastEntry.proj, "dts">>].exists
    /\ LastEntry.ctx # EmptyFileMap

\* ------------------------------------------------------------------------
\* The traversal
\* ------------------------------------------------------------------------
\* createDependencyGraph returned a queue, or failed with an error: that of
\* a root that does not parse, or the RangeError of the runtime.
TraversalEnded == trav.pc \in {"returned", "failed"}

\* A cycle of references the traversal follows: a readable project reached
\* from a readable root through readable projects reaches itself.
RECURSIVE ReadableReachIn(_, _)
ReadableReachIn(from, n) ==
    IF n = 0 \/ ~parseable[from] THEN {}
    ELSE LET direct == {r \in Range(refs[from]) : parseable[r]}
         IN  direct \cup UNION {ReadableReachIn(r, n - 1) : r \in direct}

ReadableReach(from) == ReadableReachIn(from, Cardinality(Proj))

CycleTraversed ==
    \E p \in Proj :
        /\ p \in ReadableReach(p)
        /\ \E r \in Range(roots) : parseable[r] /\ (p = r \/ p \in ReadableReach(r))

\* C26: for every reference graph, cyclic ones included, the construction
\* of the graph ends after finitely many steps: createDependencyGraph
\* returns a queue or fails with an error.
C26_TraversalTerminates == <>TraversalEnded

\* The traversal followed a cycle of references and ended: the call failed
\* with the RangeError of the full stack.
C26_Witness ==
    /\ CycleTraversed
    /\ trav.pc = "failed" /\ trav.error = RangeError

\* The configuration files that do not parse among the roots and among the
\* references of the readable projects the traversal reaches.
UnreadableRoots == {p \in Range(roots) : ~parseable[p]}

UnreadableReferences ==
    {r \in Proj : /\ ~parseable[r]
                  /\ \E q \in ReachableProjects : parseable[q] /\ r \in Range(refs[q])}

\* C27 as stated: when a root or a configuration file referenced from a
\* project reached by the traversal does not parse, createDependencyGraph
\* fails with an error naming such a file and returns no queue.
C27_UnreadableNeverOmitted ==
    (pc = "graphed" /\ UnreadableRoots \cup UnreadableReferences # {}) =>
        graph.error \in UnreadableRoots \cup UnreadableReferences

\* ------------------------------------------------------------------------
\* The reference map
\* ------------------------------------------------------------------------
\* The spellings path.normalize leaves as they are.
Canonical == {s \in Spelling : normalize(s) = s}

NoDuplicate(arr) == \A i, j \in 1..Len(arr) : i # j => arr[i] # arr[j]

\* addReference was called for the edge child -> parent.
Called(child, parent) ==
    \E i \in 1..Len(calls) :
        normalize(calls[i].child) = child /\ normalize(calls[i].parent) = parent

\* C28: after any sequence of addReference calls, for canonical ids child
\* and parent: parent is in getReferencesOf(child) exactly when child is in
\* getReferencesTo(parent), exactly when addReference was called for that
\* edge; no list and not the key list holds a duplicate; both ids of every
\* call are in getKeys; repeating any call made leaves the whole map as it is.
C28_InverseMaps ==
    /\ \A child, parent \in Canonical :
           /\ Contains(getReferencesOf(mapper, child), parent)
                  <=> Contains(getReferencesTo(mapper, parent), child)
           /\ Contains(getReferencesOf(mapper, child), parent) <=> Called(child, parent)
    /\ \A k \in Spelling :
           /\ NoDuplicate(getReferencesOf(mapper, k))
           /\ NoDuplicate(getReferencesTo(mapper, k))
    /\ NoDuplicate(getKeys(mapper))
    /\ \A i \in 1..Len(calls) :
           /\ Contains(getKeys(mapper), normalize(calls[i].child))
           /\ Contains(getKeys(mapper), normalize(calls[i].parent))
           /\ addReference(mapper, calls[i].child, calls[i].parent) = mapper

\* Three calls with canonical ids, one of them a repetition, gave one child
\* two parents.
C28_Witness ==
    /\ Len(calls) = MaxCalls
    /\ \A i \in 1..Len(calls) : calls[i].child \in Canonical /\ calls[i].parent \in Canonical
    /\ calls[1] = calls[2]
    /\ \E c \in Canonical : Len(getReferencesOf(mapper, c)) = 2

\* The call just made, and whether one of its arguments is not canonical.
LastCall == calls[Len(calls)]

NotCanonicalCall(c) == c.child \notin Canonical \/ c.parent \notin Canonical

\* Every name the map holds, as a key or as an element of a list.
StoredNames ==
    Range(mapper.allKeys)
    \cup {k \in Spelling : mapper.childToParents[k] # <<>> \/ mapper.parentToChildren[k] # <<>>}
    \cup UNION {Range(mapper.childToParents[k]) \cup Range(mapper.parentToChildren[k]) :
                   k \in Spelling}

\* C29 as stated: a call of addReference with an argument that is not
\* canonical leaves the maps and the key set as they were.
C29_NoOpWhenNotCanonical ==
    [][(calls' # calls /\ NotCanonicalCall(calls'[Len(calls')])) => mapper' = mapper]_vars

\* C29: a call of addReference with an argument that is not canonical has
\* the effect of the call with the normalized arguments: the edge between
\* the normalized names is added, and the maps and the key set never hold a
\* name that is not canonical.
C29_NormalizesArguments ==
    /\ [](StoredNames \subseteq Canonical)
    /\ [][calls' # calls =>
             mapper' = addReference(mapper, normalize(calls'[Len(calls')].child),
                                    normalize(calls'[Len(calls')].parent))]_vars
    /\ []((calls # <<>> /\ NotCanonicalCall(LastCall)) =>
             /\ Contains(getReferencesOf(mapper, normalize(LastCall.child)),
                         normalize(LastCall.parent))
             /\ Contains(getReferencesTo(mapper, normalize(LastCall.parent)),
                         normalize(LastCall.child)))

\* A call with two spellings that are not canonical added an edge that no
\* earlier call had added.
C29_Witness ==
    /\ Len(calls) = 2
    /\ LastCall.child \notin Canonical /\ LastCall.parent \notin Canonical
    /\ ~(normalize(calls[1].child) = normalize(LastCall.child)
           /\ normalize(calls[1].parent) = normalize(LastCall.parent))
    /\ Contains(getReferencesOf(mapper, normalize(LastCall.child)),
                normalize(LastCall.parent))

\* ------------------------------------------------------------------------
\* The output-path resolver
\* ------------------------------------------------------------------------
\* The probed project and the projects it references, whose outputs the
\* analysis resolved.
ResolvedProjects == {probe.proj} \cup Range(refs[probe.proj])

\* C30 as stated: the resolver lists a .d.ts path only for a project whose
\* declaration option is set; its list is the .js output, plus the .d.ts
\* output exactly under declaration; and the analyzer's own list of expected
\* outputs holds the same files.
C30_ResolverFollowsDeclaration ==
    Probed =>
        \A p \in ResolvedProjects :
            /\ <<p, "dts">> \in Range(getAllOutputFilenames(p)) => cfg[p].declaration
            /\ Range(getAllOutputFilenames(p)) = ExpectedOutputs(p)
            /\ (\A i \in DeclaredInputs(p) : fs[i].exists) =>
                   Range(allOutputsOf(p)) = Range(getAllOutputFilenames(p))

\* ------------------------------------------------------------------------
\* C33: the exit code of the process
\* ------------------------------------------------------------------------
\* The walk started by main has ended.
MainEnded == pc = "idle" /\ walks = 1

\* C33 as stated: the process ends with exit code 0 when the walk of main
\* succeeded, and with a non-zero exit code when the walk was halted by a
\* callback that returned false (an Unbuildable project, or a compile that
\* set an error flag).
C33_ExitCode ==
    MainEnded =>
        /\ (walkResult = "done" => exitCode(walkResult) = 0)
        /\ (walkResult = "halted" => exitCode(walkResult) # 0)

\* ------------------------------------------------------------------------
\* C34: pseudo-builds and outFile
\* ------------------------------------------------------------------------
\* C34 as stated: a project whose configuration sets outFile is never
\* pseudo-built: no step of a walk answers its status by touching or
\* reconstructing its outputs, and a step that finds it pseudo-up-to-date
\* (its upstream was rebuilt) and is allowed to build compiles it.
C34_NoPseudoBuildForOutFile ==
    \A k \in 1..Len(walkLog) :
        LET e == walkLog[k] IN
        cfg[e.proj].outFile =>
            /\ e.pseudo # "done"
            /\ (e.status = "pseudo-up-to-date" /\ ~flags.dry) => e.compiled

\* ------------------------------------------------------------------------
\* C35: the build context belongs to one walk
\* ------------------------------------------------------------------------
\* A walk has begun and has processed no project yet.
WalkStarting == pc = "walk" /\ walkLog = <<>>

\* In the walk before, which was halted, U was compiled and wrote the
\* declaration text it had, and D, which references U, was not analysed.
RebuiltIdenticalBeforeAbort(U, D) ==
    /\ prev.result = "halted"
    /\ U \in Range(refs[D])
    /\ \E k \in EntriesOf(prev.log, U) :
           prev.log[k].compiled /\ prev.log[k].dts = "same"
    /\ EntriesOf(prev.log, D) = {}

\* D has inputs and was analysed with every input and expected output on disk.
AnalysedComplete(e) ==
    /\ cfg[e.proj].nIn = 1
    /\ \A f \in DeclaredInputs(e.proj) \cup ExpectedOutputs(e.proj) : e.pre[f].exists

\* C35: every walk starts with an empty unchangedOutputs; and when a walk was
\* halted after U was rebuilt with an identical .d.ts and before its consumer
\* D was analysed, the next walk, with nothing changed in between,
\* classifies D (its inputs and outputs on disk) as out-of-date; whatever
\* happened in between, a D that has input files is never classified
\* pseudo-up-to-date or up-to-date by that walk.
C35_ContextOwnedByOneWalk ==
    /\ WalkStarting => unchangedOutputs = EmptyFileMap
    /\ \A U, D \in Proj :
           RebuiltIdenticalBeforeAbort(U, D) =>
               \A k \in EntriesOf(walkLog, D) :
                   /\ cfg[D].nIn = 1 =>
                          walkLog[k].status \notin {"up-to-date", "pseudo-up-to-date"}
                   /\ (prev.quiet /\ AnalysedComplete(walkLog[k])) =>
                          walkLog[k].status = "out-of-date"

\* Witness: such a D has been analysed by the walk after the halted one.
C35_Witness ==
    \E U, D \in Proj :
        /\ RebuiltIdenticalBeforeAbort(U, D) /\ prev.quiet
        /\ \E k \in EntriesOf(walkLog, D) :
               AnalysedComplete(walkLog[k]) /\ walkLog[k].status = "out-of-date"

\* ------------------------------------------------------------------------
\* C38: the layer of a project is the length of its longest reference path
\* ------------------------------------------------------------------------
\* The projects at the end of a path of n readable references from a root.
RECURSIVE AtDepth(_)
AtDepth(n) ==
    IF n = 0 THEN Range(roots)
    ELSE {r \in Proj : parseable[r] /\ \E q \in AtDepth(n - 1) : r \in Range(refs[q])}

Depths(p) == {n \in 0..Cardinality(Proj) : p \in AtDepth(n)}

LongestPath(p) == CHOOSE n \in Depths(p) : \A m \in Depths(p) : m <= n

\* The roots that no root reaches through readable references.
TopRoots == {r \in Range(roots) : Depths(r) = {0}}

\* C38: in the queue createDependencyGraph returns, the layer index of every
\* project (from 0) is the length of the longest path of references from a
\* root to it; a root no root's closure holds is in layer 0.
C38_LayerIsLongestPath ==
    GraphBuilt =>
        /\ \A p \in ReachableProjects :
               LayersOf(graph.buildQueue, p) = {LongestPath(p) + 1}
        /\ \A r \in TopRoots : Contains(graph.buildQueue[1], r)

\* Witness: a project reached by paths of lengths 1 and 2 lies in layer 2,
\* and a root that is also a reference of another root lies below layer 0.
C38_Witness ==
    /\ GraphBuilt
    /\ \E p \in ReachableProjects :
           /\ {1, 2} \subseteq Depths(p)
           /\ LayersOf(graph.buildQueue, p) = {3}
    /\ \E r \in Range(roots) :
           r \notin TopRoots /\ ~Contains(graph.buildQueue[1], r)

\* ------------------------------------------------------------------------
\* C36: the descriptor after a concatenated-output pseudo-build
\* ------------------------------------------------------------------------
\* A call for a project with a prepended reference that returned true.
ReusedBundle(a) == cfg[a.proj].prepend # {} /\ a.result = "true"

BundleText(tree, p) == tree[<<p, "js">>].content

Descriptor(tree, p) == tree[<<p, "info">>].content

\* The text of a bundle from the offset its descriptor gives.
OwnPart(tree, p) ==
    SubSeq(BundleText(tree, p), Descriptor(tree, p)[1] + 1, Len(BundleText(tree, p)))

RECURSIVE SumLen(_, _)
SumLen(tree, rs) ==
    IF rs = <<>> THEN 0 ELSE Len(BundleText(tree, Head(rs))) + SumLen(tree, Tail(rs))

\* Between the calls j and k nothing wrote p's bundle or its descriptor.
KeptBetween(j, k) ==
    LET p == attempts[j].proj IN
    /\ attempts[k].pre[<<p, "js">>] = attempts[j].post[<<p, "js">>]
    /\ attempts[k].pre[<<p, "info">>] = attempts[j].post[<<p, "info">>]

\* C36: after a pseudo-build of a project with a prepended reference that
\* succeeded, originalOffset is the total length of the referenced bundles
\* placed in front, totalLength is the length of the bundle, and the bundle
\* from originalOffset on is the own part taken from the bundle before the
\* rewrite; a later pseudo-build of the same bundle passes the length check
\* and keeps the own part.
C36_DescriptorConsistent ==
    \A j \in 1..Len(attempts) :
        LET a == attempts[j]
            p == a.proj
        IN  ReusedBundle(a) =>
                /\ Descriptor(a.post, p)[1] = SumLen(a.pre, refs[p])
                /\ Descriptor(a.post, p)[2] = Len(BundleText(a.post, p))
                /\ OwnPart(a.post, p) = OwnPart(a.pre, p)
                /\ \A k \in (j + 1)..Len(attempts) :
                       (attempts[k].proj = p /\ KeptBetween(j, k)) =>
                           /\ attempts[k].result # "false"
                           /\ attempts[k].result = "true" =>
                                  OwnPart(attempts[k].post, p) = OwnPart(a.pre, p)

\* Witness: two pseudo-builds of one bundle succeeded, an upstream bundle
\* having changed its length in between.
C36_Witness ==
    \E j, k \in 1..Len(attempts) :
        /\ j < k
        /\ ReusedBundle(attempts[j]) /\ ReusedBundle(attempts[k])
        /\ attempts[k].proj = attempts[j].proj
        /\ KeptBetween(j, k)
        /\ Descriptor(attempts[k].post, attempts[k].proj)[1]
               # Descriptor(attempts[j].post, attempts[j].proj)[1]
        /\ OwnPart(attempts[k].post, attempts[k].proj) # <<>>

\* ------------------------------------------------------------------------
\* C39: a pseudo-build that returns false has changed nothing
\* ------------------------------------------------------------------------
\* C39: whenever tryPseudoBuild returns false, the file system (contents and
\* mtimes of the bundle, the descriptor, the declaration output and every
\* other file) and unchangedOutputs are as before the call.
C39_RefusalChangesNothing ==
    \A j \in 1..Len(attempts) :
        attempts[j].result = "false" =>
            /\ attempts[j].post = attempts[j].pre
            /\ attempts[j].ctxPost = attempts[j].ctx

\* Witness: a call returned false because the saved length did not match,
\* with the declaration output on disk, after a call that recorded an entry.
C39_Witness ==
    \E j \in 1..Len(attempts) :
        LET a == attempts[j]
            p == a.proj
        IN  /\ a.result = "false"
            /\ a.pre[<<p, "js">>].exists /\ a.pre[<<p, "info">>].exists
            /\ a.pre[<<p, "dts">>].exists
            /\ Len(BundleText(a.pre, p)) # Descriptor(a.pre, p)[2]
            /\ a.ctx # EmptyFileMap

\* ------------------------------------------------------------------------
\* Watch mode
\* ------------------------------------------------------------------------
\* C37: in watch mode every input file of every project of the queue has an
\* active watcher that reports it: a file without a file watcher of its own
\* lies below a watched directory that reports it.
C37_EveryInputWatched ==
    watch.phase = "watching" =>
        \A p \in QueueProjects : \A f \in Range(fileNames(p)) :
            \E w \in watch.active : delivers(w, pathOf(watch.layout, f))

\* C31: after any number of graph rebuilds the active watchers are those of
\* the last installation, and no configuration file, directory or input
\* file has two active watchers for one project.
C31_OnlyNewWatchers ==
    /\ \A w \in watch.active : w.id = watch.installs
    /\ \A w1, w2 \in watch.active :
           (w1.proj = w2.proj /\ w1.kind = w2.kind /\ w1.path = w2.path) => w1 = w2

IsExtension(log1, log2) ==
    Len(log1) <= Len(log2) /\ SubSeq(log2, 1, Len(log1)) = log1

\* C32: walks are serialized: a callback of a watcher starts its walk or its
\* graph rebuild only when no walk is running, and while a walk is running
\* the graph and the watchers' installation stay as they are and the walk's
\* log only grows (no second walk starts under it).
C32_WalksSerialized ==
    [][/\ watch'.starts # watch.starts => (pc = "idle" /\ pc' = "walk")
       /\ pc = "walk" => /\ graph' = graph
                         /\ watch'.installs = watch.installs
                         /\ IsExtension(walkLog, walkLog')]_vars

\* An input file was saved while a walk was running in watch mode, and the
\* callback for it has run since and started the walk now in progress.
C32_Witness ==
    /\ watch.served
    /\ pc = "walk"
    /\ watch.installs > 1

\* A step of a walk that compiled or pseudo-built a project.
BuildStep ==
    /\ Len(walkLog') = Len(walkLog) + 1
    /\ \/ walkLog'[Len(walkLog')].compiled
       \/ walkLog'[Len(walkLog')].pseudo # "no"

\* C40: once the user's changes have stopped (they are bounded), the
\* program compiles or pseudo-builds only finitely many more times.
C40_Quiescence == <>[][~BuildStep]_vars

============================================================================
